---- MODULE Spec2Model ----
(***************************************************************************)
(* Model of the job-search scraping pipeline:                              *)
(*   - web_utils.py     RateLimiter / AsyncWebScraper (the Fetcher)        *)
(*   - job_processor.py JobDeduplicator, JobValidator, DynamoDBBatchWriter,*)
(*                      JobProcessor                                       *)
(*   - lambda_handler.py ScraperOrchestrator, lambda_handler               *)
(* Strings are sequences of character codes, so that split/strip/lower are *)
(* computed the way the code computes them.                                *)
(***************************************************************************)
EXTENDS Integers, Sequences, FiniteSets, TLC

VARIABLES
    \* ---- AsyncWebScraper / RateLimiter (web_utils.py) ----
    session,                    \* self.session is set (inside the context manager)
    max_concurrent_per_source,  \* constructor argument
    semaphores,                 \* domain -> free slots, NoSem before creation
    last_request_times,         \* domain -> age of the ledger entry, NoEntry if absent
    urls,                       \* argument of fetch_multiple_pages
    fpc,                        \* task -> position inside fetch_page
    fnow,                       \* task -> age of the `now` read by wait_if_needed
    fsleep,                     \* task -> remaining time of its asyncio.sleep
    ok200,                      \* task -> the exchange returned 200 and its body was read
    fresult,                    \* task -> value fetch_page returned (or exception)
    out_of_order,               \* some task finished before a task listed ahead of it
    results,                    \* return value of fetch_multiple_pages
    since_get,                  \* domain -> time since the latest GET, NoEntry if none
    get_gap,                    \* domain -> gap between the two latest GETs, NoEntry if < 2
    backoffs,                   \* task -> number of 429 backoff sleeps done
    gets,                       \* task -> number of GET requests issued
    \* ---- JobProcessor / JobDeduplicator / DynamoDBBatchWriter (job_processor.py) ----
    source_pages,               \* the candidates the scrapers extract from the source pages
    store,                      \* the DynamoDB table: a set of items
    seen_urls,                  \* JobDeduplicator.seen_urls
    ppc,                        \* position inside process_scraped_jobs
    clock,                      \* datetime.now(), logical
    stats,                      \* the stats dictionary of the running call
    valid_jobs,                 \* list of (job_id, validated_data)
    chunk_res,                  \* existence chunk -> result of _check_existing_batch
    existing_job_ids,           \* what check_existing_jobs returned
    write_records,              \* all_records, as handed to batch_write_jobs
    batch_res,                  \* write batch -> result of _write_batch
    hist,                       \* one summary per process_scraped_jobs call
    opc,                        \* where run_all_scrapers stands
    scraping_results,           \* source index -> what its scraping task returned
    orch_results,               \* the results dictionary of run_all_scrapers
    \* ---- calls of single functions ----
    call_args,                  \* the arguments the calls are made with
    call_rets,                  \* what the calls made so far returned, in call order
    \* ---- API client and API handlers (apiclient/, api/put_job.py) ----
    job_table,                  \* the DynamoDB table keyed by id: a set of items
    http_response,              \* what the latest handler invocation returned
    uuid_count                  \* how many uuid4 values have been drawn

fetchVars == <<session, max_concurrent_per_source, semaphores, last_request_times,
               urls, fpc, fnow, fsleep, ok200, fresult, out_of_order, results,
               since_get, get_gap, backoffs, gets>>

procVars == <<source_pages, store, seen_urls, ppc, clock, stats, valid_jobs, chunk_res,
              existing_job_ids, write_records, batch_res, hist>>

orchVars == <<opc, scraping_results, orch_results>>

callVars == <<call_args, call_rets>>

apiVars == <<job_table, http_response, uuid_count>>

vars == <<fetchVars, procVars, orchVars, callVars, apiVars>>

----------------------------------------------------------------------------
\* Bounds of the model
MaxUrls == 3          \* longest url list handed to fetch_multiple_pages
MaxConcurrent == 2    \* largest max_concurrent_per_source tried
MaxRateLimited == 1   \* most exchanges of one fan-out answered with 429
MaxJobs == 2          \* most candidates the scrapers hand to one run
MaxRuns == 2          \* most runs of the processor
MaxChunks == 3        \* most existence-lookup chunks of one run
MaxBatches == 2       \* most write batches of one run
MaxRemainder == 5     \* most records beyond a whole number of write batches
MaxTail == 1          \* most ids beyond a whole number of lookup chunks
MaxStride == 2        \* an earlier run stored every m-th record, m up to this
MaxSiteJobs == 1      \* most candidates one source returns to the orchestrator

\* Program constants
min_delay == 1        \* RateLimiter.__init__ default, seconds
max_delay == 3
backoff_min == 5      \* random.uniform(5, 10) after a 429
backoff_max == 10

NoSem == -1
NoEntry == -1

----------------------------------------------------------------------------
\* Strings as sequences of character codes

Str_http == <<104, 116, 116, 112, 58, 47, 47>>          \* "http://"
Str_https == <<104, 116, 116, 112, 115, 58, 47, 47>>    \* "https://"

IsSpace(c) == c \in {32, 9, 10, 11, 12, 13}

\* first index of character c in s, 0 when absent
IndexOf(s, c) ==
    IF \E i \in 1..Len(s) : s[i] = c
    THEN CHOOSE i \in 1..Len(s) : s[i] = c /\ \A j \in 1..(i - 1) : s[j] # c
    ELSE 0

\* s.split(c)[0]
SplitFirst(s, c) ==
    IF IndexOf(s, c) = 0 THEN s ELSE SubSeq(s, 1, IndexOf(s, c) - 1)

\* s.strip()
Strip(s) ==
    IF \A i \in 1..Len(s) : IsSpace(s[i]) THEN << >>
    ELSE LET lo == CHOOSE i \in 1..Len(s) :
                       ~IsSpace(s[i]) /\ \A j \in 1..(i - 1) : IsSpace(s[j])
             hi == CHOOSE i \in 1..Len(s) :
                       ~IsSpace(s[i]) /\ \A j \in (i + 1)..Len(s) : IsSpace(s[j])
         IN  SubSeq(s, lo, hi)

\* s.lower() on ASCII
Lower(s) == [i \in 1..Len(s) |-> IF s[i] >= 65 /\ s[i] <= 90 THEN s[i] + 32 ELSE s[i]]

\* s.startswith(p)
StartsWith(s, p) == Len(s) >= Len(p) /\ SubSeq(s, 1, Len(p)) = p

\* urlparse(url).netloc: what follows "scheme://" up to the next "/", "?" or "#"
Netloc(url) ==
    LET colon == IndexOf(url, 58)
        rest  == IF colon > 0 /\ Len(url) >= colon + 2
                    /\ url[colon + 1] = 47 /\ url[colon + 2] = 47
                 THEN SubSeq(url, colon + 3, Len(url))
                 ELSE << >>
    IN  SplitFirst(SplitFirst(SplitFirst(rest, 47), 63), 35)

----------------------------------------------------------------------------
\* The Fetcher: AsyncWebScraper.fetch_multiple_pages / fetch_page

\* pages the model fetches: http://a/x  http://b/x
FetchUrlPool == { Str_http \o <<97, 47, 120>>,
                  Str_http \o <<98, 47, 120>> }

Domains == { Netloc(u) : u \in FetchUrlPool }

Tasks == 1..Len(urls)

\* how an HTTP exchange can end: status 200 with its body read, status 429, another
\* status, asyncio.TimeoutError, aiohttp.ClientError, any other exception (the three
\* exceptions raised by session.get or by response.text())
Outcomes == {"200", "429", "404", "timeout", "client_error", "exception"}

None == <<"None">>
RuntimeError == <<"RuntimeError">>
Body(u) == <<"body", u>>
NotReturned == <<"pending">>
\* the value of `results` while fetch_multiple_pages has not returned
NotGathered == << NotReturned >>

Min(a, b) == IF a < b THEN a ELSE b

\* _get_domain_semaphore: the key under which a url's semaphore is kept. The
\* variant keeps one semaphore for every url.
SemKey_shared(url) == CHOOSE d \in Domains : TRUE
SemKey(url) == Netloc(url)

\* tasks that hold a slot of domain d (inside `async with semaphore`)
Holders(d) == { t \in Tasks : Netloc(urls[t]) = d /\ fpc[t] \in {"sleep", "get", "backoff"} }

FetchInit ==
    /\ session = FALSE
    /\ max_concurrent_per_source \in 1..MaxConcurrent
    /\ semaphores = [d \in Domains |-> NoSem]
    /\ last_request_times = [d \in Domains |-> NoEntry]
    /\ urls \in UNION { [1..n -> FetchUrlPool] : n \in 0..MaxUrls }
    \* the two domains are interchangeable: the first url is on domain a
    /\ Len(urls) > 0 => urls[1] = Str_http \o <<97, 47, 120>>
    /\ fpc = [t \in 1..Len(urls) |-> "created"]
    /\ fnow = [t \in 1..Len(urls) |-> 0]
    /\ fsleep = [t \in 1..Len(urls) |-> 0]
    /\ ok200 = [t \in 1..Len(urls) |-> FALSE]
    /\ fresult = [t \in 1..Len(urls) |-> NotReturned]
    /\ out_of_order = FALSE
    /\ results = NotGathered
    /\ since_get = [d \in Domains |-> NoEntry]
    /\ get_gap = [d \in Domains |-> NoEntry]
    /\ backoffs = [t \in 1..Len(urls) |-> 0]
    /\ gets = [t \in 1..Len(urls) |-> 0]

\* session.get(...) is entered: the moment the request is issued to domain d
IssueGet(t, d) ==
    /\ gets' = [gets EXCEPT ![t] = @ + 1]
    /\ get_gap' = [get_gap EXCEPT ![d] = since_get[d]]
    /\ since_get' = [since_get EXCEPT ![d] = 0]

\* RateLimiter.wait_if_needed up to its first suspension, entered holding the slot.
\* No entry, or enough time elapsed: the ledger is written and the GET is issued in
\* the same step. Otherwise the task sleeps; the ledger is written after the sleep.
WaitIfNeeded(t, d) ==
    /\ fnow' = [fnow EXCEPT ![t] = 0]
    /\ \/ /\ last_request_times[d] = NoEntry
          /\ last_request_times' = [last_request_times EXCEPT ![d] = 0]
          /\ IssueGet(t, d)
          /\ fpc' = [fpc EXCEPT ![t] = "get"]
          /\ UNCHANGED fsleep
       \/ /\ last_request_times[d] # NoEntry
          /\ \E delay \in min_delay..max_delay :
                IF last_request_times[d] < delay
                THEN /\ fsleep' = [fsleep EXCEPT ![t] = delay - last_request_times[d]]
                     /\ fpc' = [fpc EXCEPT ![t] = "sleep"]
                     /\ UNCHANGED <<last_request_times, gets, get_gap, since_get>>
                ELSE /\ last_request_times' = [last_request_times EXCEPT ![d] = 0]
                     /\ IssueGet(t, d)
                     /\ fpc' = [fpc EXCEPT ![t] = "get"]
                     /\ UNCHANGED fsleep

\* the task finishes: `async with semaphore` releases the slot if it was held.
\* The variant returns without releasing it.
Finish_keep(t, value, held) ==
    /\ fresult' = [fresult EXCEPT ![t] = value]
    /\ out_of_order' = (out_of_order \/ \E u \in 1..(t - 1) : fpc[u] # "done")
    /\ UNCHANGED semaphores
Finish(t, value, held) ==
    /\ fresult' = [fresult EXCEPT ![t] = value]
    /\ out_of_order' = (out_of_order \/ \E u \in 1..(t - 1) : fpc[u] # "done")
    /\ IF held
       THEN semaphores' = [semaphores EXCEPT ![SemKey(urls[t])] = @ + 1]
       ELSE UNCHANGED semaphores

\* __aenter__: the session is created
AEnter ==
    /\ ~session
    /\ \A t \in Tasks : fpc[t] = "created"
    /\ session' = TRUE
    /\ UNCHANGED <<max_concurrent_per_source, semaphores, last_request_times, urls, fpc,
                   fnow, fsleep, ok200, fresult, out_of_order, results, since_get,
                   get_gap, backoffs, gets>>

\* fetch_page from its call to its first suspension. gather starts the coroutines
\* in list order.
StartFetch(t) ==
    /\ fpc[t] = "created"
    /\ \A u \in 1..(t - 1) : fpc[u] # "created"
    /\ UNCHANGED <<session, max_concurrent_per_source, urls, ok200, results, backoffs>>
    /\ IF ~session
       THEN /\ fpc' = [fpc EXCEPT ![t] = "done"]
            /\ Finish(t, RuntimeError, FALSE)
            /\ UNCHANGED <<last_request_times, fnow, fsleep, since_get, get_gap, gets>>
       ELSE LET d   == Netloc(urls[t])
                k   == SemKey(urls[t])
                sem == IF semaphores[k] = NoSem THEN max_concurrent_per_source
                       ELSE semaphores[k]
            IN  /\ UNCHANGED <<fresult, out_of_order>>
                /\ IF sem > 0
                   THEN /\ semaphores' = [semaphores EXCEPT ![k] = sem - 1]
                        /\ WaitIfNeeded(t, d)
                   ELSE /\ semaphores' = [semaphores EXCEPT ![k] = sem]
                        /\ fpc' = [fpc EXCEPT ![t] = "acquire"]
                        /\ UNCHANGED <<last_request_times, fnow, fsleep, since_get,
                                       get_gap, gets>>

\* a task blocked in semaphore.acquire() gets a released slot
Acquire(t) ==
    /\ fpc[t] = "acquire"
    /\ semaphores[SemKey(urls[t])] > 0
    /\ semaphores' = [semaphores EXCEPT ![SemKey(urls[t])] = @ - 1]
    /\ WaitIfNeeded(t, Netloc(urls[t]))
    /\ UNCHANGED <<session, max_concurrent_per_source, urls, ok200, fresult,
                   out_of_order, results, backoffs>>

\* asyncio.sleep(wait_time) of wait_if_needed is over: the ledger gets the `now`
\* read before the sleep, and the GET is issued
WakeRate(t) ==
    /\ fpc[t] = "sleep"
    /\ fsleep[t] = 0
    /\ last_request_times' = [last_request_times EXCEPT ![Netloc(urls[t])] = fnow[t]]
    /\ IssueGet(t, Netloc(urls[t]))
    /\ fpc' = [fpc EXCEPT ![t] = "get"]
    /\ fnow' = [fnow EXCEPT ![t] = 0]
    /\ UNCHANGED <<session, max_concurrent_per_source, semaphores, urls, fsleep,
                   ok200, fresult, out_of_order, results, backoffs>>

\* the HTTP exchange ends
Response(t) ==
    /\ fpc[t] = "get"
    /\ \E o \in Outcomes :
          /\ ok200' = [ok200 EXCEPT ![t] = (o = "200")]
          /\ CASE o = "200" ->
                    /\ fpc' = [fpc EXCEPT ![t] = "done"]
                    /\ Finish(t, Body(urls[t]), TRUE)
                    /\ UNCHANGED <<fsleep, backoffs>>
               [] o = "429" ->
                    /\ Cardinality({u \in Tasks : backoffs[u] > 0}) < MaxRateLimited
                    /\ \E b \in backoff_min..backoff_max :
                          fsleep' = [fsleep EXCEPT ![t] = b]
                    /\ fpc' = [fpc EXCEPT ![t] = "backoff"]
                    /\ backoffs' = [backoffs EXCEPT ![t] = @ + 1]
                    /\ UNCHANGED <<semaphores, fresult, out_of_order>>
               [] OTHER ->
                    /\ fpc' = [fpc EXCEPT ![t] = "done"]
                    /\ Finish(t, None, TRUE)
                    /\ UNCHANGED <<fsleep, backoffs>>
    /\ UNCHANGED <<session, max_concurrent_per_source, last_request_times, urls, fnow,
                   results, since_get, get_gap, gets>>

\* the backoff sleep after a 429 is over: fetch_page returns None. The variant
\* issues the request again.
WakeBackoff_retry(t) ==
    /\ fpc[t] = "backoff"
    /\ fsleep[t] = 0
    /\ fpc' = [fpc EXCEPT ![t] = "get"]
    /\ IssueGet(t, Netloc(urls[t]))
    /\ UNCHANGED <<session, max_concurrent_per_source, semaphores, last_request_times, urls,
                   fnow, fsleep, ok200, fresult, out_of_order, results, backoffs>>
WakeBackoff(t) ==
    /\ fpc[t] = "backoff"
    /\ fsleep[t] = 0
    /\ fpc' = [fpc EXCEPT ![t] = "done"]
    /\ Finish(t, None, TRUE)
    /\ UNCHANGED <<session, max_concurrent_per_source, last_request_times, urls, fnow,
                   fsleep, ok200, results, since_get, get_gap, backoffs, gets>>

\* a task the event loop can run now: it was just created, its sleep is over, or
\* the slot it waits for is free
Runnable(t) ==
    \/ fpc[t] = "created"
    \/ fpc[t] \in {"sleep", "backoff"} /\ fsleep[t] = 0
    \/ fpc[t] = "acquire" /\ semaphores[SemKey(urls[t])] > 0

\* one second passes: only while every task is suspended on a timer or on the network
Tick ==
    /\ \A t \in Tasks : ~Runnable(t)
    /\ \E t \in Tasks : fpc[t] \in {"sleep", "backoff", "get"}
    /\ fsleep' = [t \in Tasks |-> IF fsleep[t] > 0 THEN fsleep[t] - 1 ELSE 0]
    /\ fnow' = [t \in Tasks |-> IF fpc[t] = "sleep" THEN Min(fnow[t] + 1, max_delay) ELSE fnow[t]]
    /\ last_request_times' = [d \in Domains |->
            IF last_request_times[d] = NoEntry THEN NoEntry
            ELSE Min(last_request_times[d] + 1, max_delay)]
    /\ since_get' = [d \in Domains |->
            IF since_get[d] = NoEntry THEN NoEntry ELSE Min(since_get[d] + 1, min_delay)]
    /\ UNCHANGED <<session, max_concurrent_per_source, semaphores, urls, fpc, ok200,
                   fresult, out_of_order, results, get_gap, backoffs, gets>>

\* asyncio.gather(..., return_exceptions=True): one entry per task, in task order
GatherResults == [i \in 1..Len(urls) |-> fresult[i]]

\* the loop over the gathered results: an exception becomes None. The variant
\* hands the gathered value on as it is.
ProcessResult_raw(r) == r
ProcessResult(r) == IF r = RuntimeError THEN None ELSE r

\* fetch_multiple_pages returns
FetchMultiplePagesReturn ==
    /\ results = NotGathered
    /\ \A t \in Tasks : fpc[t] = "done"
    /\ results' = [i \in 1..Len(GatherResults) |-> ProcessResult(GatherResults[i])]
    /\ UNCHANGED <<session, max_concurrent_per_source, semaphores, last_request_times,
                   urls, fpc, fnow, fsleep, ok200, fresult, out_of_order, since_get,
                   get_gap, backoffs, gets>>

FetchNext ==
    \/ AEnter /\ UNCHANGED <<procVars, orchVars, callVars, apiVars>>
    \/ \E t \in Tasks : StartFetch(t) /\ UNCHANGED <<procVars, orchVars, callVars, apiVars>>
    \/ \E t \in Tasks : Acquire(t) /\ UNCHANGED <<procVars, orchVars, callVars, apiVars>>
    \/ \E t \in Tasks : WakeRate(t) /\ UNCHANGED <<procVars, orchVars, callVars, apiVars>>
    \/ \E t \in Tasks : Response(t) /\ UNCHANGED <<procVars, orchVars, callVars, apiVars>>
    \/ \E t \in Tasks : WakeBackoff(t) /\ UNCHANGED <<procVars, orchVars, callVars, apiVars>>
    \/ Tick /\ UNCHANGED <<procVars, orchVars, callVars, apiVars>>
    \/ FetchMultiplePagesReturn /\ UNCHANGED <<procVars, orchVars, callVars, apiVars>>

----------------------------------------------------------------------------
\* Python values of a scraped job dictionary: a missing key, None, a str, an int

Absent == <<"absent">>
S(codes) == <<"str", codes>>
I(n) == <<"int", n>>
\* datetime.now().isoformat() read at logical time n
Time(n) == <<"time", n>>

\* a non-empty dict, and a JobRecord instance
Dict(fields) == <<"dict", fields>>
JobRecord(fields) == <<"JobRecord", fields>>

\* job_data.get(field): None for a missing key
Get(v) == IF v = Absent THEN None ELSE v

\* truthiness of a value (`if not value`)
Truthy(v) ==
    CASE v[1] = "str" -> v[2] # << >>
      [] v[1] \in {"int", "float"} -> v[2] # 0
      [] v[1] \in {"dict", "JobRecord"} -> TRUE
      [] OTHER -> FALSE

\* s.replace(old, new)
RECURSIVE Replace(_, _, _)
Replace(s, old, new) ==
    IF Len(s) < Len(old) THEN s
    ELSE IF SubSeq(s, 1, Len(old)) = old
         THEN new \o Replace(SubSeq(s, Len(old) + 1, Len(s)), old, new)
         ELSE <<s[1]>> \o Replace(Tail(s), old, new)

----------------------------------------------------------------------------
\* JobDeduplicator

\* url.split('?')[0].split('#')[0].strip().lower()
Canon(url) == Lower(Strip(SplitFirst(SplitFirst(url, 63), 35)))

\* hashlib.sha256(...).hexdigest()[:16]: the digest is kept as a tag on its
\* input (two different inputs never get the same digest here)
Sha16(s) == <<"sha256_16", s>>

\* generate_job_id. The variant hashes the url as given.
generate_job_id_raw(url) == Sha16(url)
generate_job_id(url) == Sha16(Canon(url))

is_duplicate(url, seen) == Canon(url) \in seen

\* add_job: the set after the url was added. The variant forgets to add it.
add_job_forget(url, seen) == seen
add_job(url, seen) == seen \cup {Canon(url)}

----------------------------------------------------------------------------
\* shared/validation.py

Str_paris == <<112, 97, 114, 105, 115>>                                  \* "paris"
Str_Paris == <<80, 97, 114, 105, 115>>                                   \* "Paris"
Str_versailles == <<118, 101, 114, 115, 97, 105, 108, 108, 101, 115>>    \* "versailles"
Str_nanterre == <<110, 97, 110, 116, 101, 114, 114, 101>>                \* "nanterre"
Str_saint_denis == <<115, 97, 105, 110, 116, 45, 100, 101, 110, 105, 115>>  \* "saint-denis"
Str_Lyon == <<76, 121, 111, 110>>                                        \* "Lyon"
Str_saint_ == <<115, 97, 105, 110, 116, 45>>                             \* "saint-"
Str_st_ == <<115, 116, 45>>                                              \* "st-"
Str_sainte_ == <<115, 97, 105, 110, 116, 101, 45>>                       \* "sainte-"
Str_ste_ == <<115, 116, 101, 45>>                                        \* "ste-"

\* the part of ILE_DE_FRANCE_CITIES the model carries
ILE_DE_FRANCE_CITIES == {Str_paris, Str_versailles, Str_nanterre, Str_saint_denis}

\* city.lower().replace("'", "-").replace("'", "-") for each gazetteer name
NORMALIZED_CITIES == { Replace(Lower(c), <<39>>, <<45>>) : c \in ILE_DE_FRANCE_CITIES }

\* validate_ile_de_france_city, for a value that may be None or a str. The
\* variant accepts every non-empty string.
validate_ile_de_france_city_any(city) == Truthy(city) /\ city[1] = "str"
validate_ile_de_france_city(city) ==
    IF ~Truthy(city) \/ city[1] # "str" THEN FALSE
    ELSE LET n1 == Replace(Strip(Lower(city[2])), <<39>>, <<45>>)
             n2 == Replace(Replace(n1, Str_saint_, Str_st_), Str_sainte_, Str_ste_)
         IN  n2 \in NORMALIZED_CITIES

Str_date == <<50, 48, 50, 52, 45, 48, 49, 45, 48, 53>>      \* "2024-01-05"

\* the strings dateutil parses, among those the model carries
ParsableDates == {Str_date}

ValueError == <<"ValueError">>

\* normalize_date: the ISO form of a parsable string, ValueError otherwise
normalize_date(v) ==
    IF v[1] = "time" THEN v
    ELSE IF v[1] # "str" \/ Strip(v[2]) = << >> THEN ValueError
    ELSE IF Strip(v[2]) \in ParsableDates THEN S(Strip(v[2]))
    ELSE ValueError

----------------------------------------------------------------------------
\* JobValidator

IsDigit(c) == c >= 48 /\ c <= 57

RECURSIVE DigitsValue(_)
DigitsValue(s) == IF s = << >> THEN 0 ELSE 10 * DigitsValue(SubSeq(s, 1, Len(s) - 1)) + (s[Len(s)] - 48)

\* float('inf')
Inf == <<"inf">>

OverflowError == <<"OverflowError">>

\* int(experience): the integer, or ValueError / TypeError (both handled
\* alike), or the OverflowError of an infinite float
PyInt(v) ==
    IF v[1] = "int" THEN v
    ELSE IF v[1] = "float" THEN <<"int", v[2]>>
    ELSE IF v = Inf THEN OverflowError
    ELSE IF v[1] # "str" THEN ValueError
    ELSE LET t    == Strip(v[2])
             neg  == t # << >> /\ t[1] = 45
             body == IF t # << >> /\ t[1] \in {43, 45} THEN Tail(t) ELSE t
         IN  IF body = << >> \/ \E i \in 1..Len(body) : ~IsDigit(body[i]) THEN ValueError
             ELSE I(IF neg THEN 0 - DigitsValue(body) ELSE DigitsValue(body))

\* the experience years kept by validate_job_data
NormalizeExperience(v) ==
    IF v = None THEN 0
    ELSE IF PyInt(v) = ValueError THEN 0
    ELSE IF 0 <= PyInt(v)[2] /\ PyInt(v)[2] <= 50 THEN PyInt(v)[2]
    ELSE 0

\* the city kept by validate_job_data: job_data.get('city', 'Paris'), checked
NormalizeCity(v) ==
    LET city == IF v = Absent THEN S(Str_Paris) ELSE v
    IN  IF Truthy(city) /\ validate_ile_de_france_city(city) THEN city[2] ELSE Str_Paris

\* the published date kept by validate_job_data
NormalizeDate(v, now) ==
    IF Truthy(Get(v))
    THEN (IF normalize_date(v) = ValueError THEN Time(now) ELSE normalize_date(v))
    ELSE Time(now)

\* validate_job_data: the normalized dictionary, or None
validate_job_data(job, now) ==
    IF \E f \in {"job_title", "company_name", "link", "source"} : ~Truthy(Get(job[f]))
    THEN None
    ELSE IF ~(StartsWith(Strip(job.link[2]), Str_http) \/ StartsWith(Strip(job.link[2]), Str_https))
    THEN None
    ELSE IF PyInt(Get(job.year_of_experience)) = OverflowError
    THEN None
    ELSE Dict(
         [ job_title |-> Strip(job.job_title[2]),
           company_name |-> Strip(job.company_name[2]),
           link |-> Strip(job.link[2]),
           source |-> Strip(job.source[2]),
           city |-> NormalizeCity(job.city),
           year_of_experience |-> NormalizeExperience(Get(job.year_of_experience)),
           published_date |-> NormalizeDate(job.published_date, now),
           description |-> IF job.description = Absent THEN S(<< >>) ELSE job.description,
           salary_range |-> IF job.salary_range = Absent THEN S(<< >>) ELSE job.salary_range,
           created_at |-> Time(now),
           updated_at |-> Time(now) ])

\* create_job_record: JobRecord(**job_data) with job_id, or None when a pydantic
\* field constraint rejects it
create_job_record(data, job_id) ==
    IF \/ data.job_title = << >> \/ data.company_name = << >>
       \/ data.link = << >> \/ data.source = << >>
       \/ ~validate_ile_de_france_city(S(data.city))
       \/ data.year_of_experience < 0 \/ data.year_of_experience > 50
       \/ ~(StartsWith(data.link, Str_http) \/ StartsWith(data.link, Str_https))
    THEN None
    ELSE JobRecord(
         [ job_id |-> job_id,
           job_title |-> data.job_title,
           company_name |-> data.company_name,
           link |-> data.link,
           source |-> data.source,
           city |-> data.city,
           year_of_experience |-> data.year_of_experience,
           published_date |-> data.published_date,
           description |-> data.description,
           salary_range |-> data.salary_range,
           created_at |-> data.created_at,
           updated_at |-> data.updated_at ])

----------------------------------------------------------------------------
\* JobProcessor.process_scraped_jobs, step 1: deduplicate and validate

NewStats(n) ==
    [ total_scraped |-> n, duplicates_filtered |-> 0, validation_failed |-> 0,
      new_jobs |-> 0, updated_jobs |-> 0, db_write_success |-> 0,
      db_write_errors |-> 0, errors |-> << >> ]

\* the body of the loop over scraped_jobs for one candidate; acc carries
\* valid_jobs, the deduplicator's seen_urls and the two counters
\* (the variant drops a duplicate without counting it)
Step1Body_uncounted(job, acc, now) ==
    LET job_url   == IF job.link = Absent THEN S(<< >>) ELSE job.link
        validated == validate_job_data(job, now)
    IN  IF ~Truthy(job_url)
        THEN [acc EXCEPT !.validation_failed = @ + 1]
        ELSE IF is_duplicate(job_url[2], acc.seen_urls)
        THEN acc
        ELSE IF ~Truthy(validated)
        THEN [acc EXCEPT !.validation_failed = @ + 1]
        ELSE [acc EXCEPT !.seen_urls = add_job(job_url[2], @),
                         !.valid_jobs = Append(@, <<generate_job_id(job_url[2]), validated[2]>>)]
Step1Body(job, acc, now) ==
    LET job_url   == IF job.link = Absent THEN S(<< >>) ELSE job.link
        validated == validate_job_data(job, now)
    IN  IF ~Truthy(job_url)
        THEN [acc EXCEPT !.validation_failed = @ + 1]
        ELSE IF is_duplicate(job_url[2], acc.seen_urls)
        THEN [acc EXCEPT !.duplicates_filtered = @ + 1]
        ELSE IF ~Truthy(validated)
        THEN [acc EXCEPT !.validation_failed = @ + 1]
        ELSE [acc EXCEPT !.seen_urls = add_job(job_url[2], @),
                         !.valid_jobs = Append(@, <<generate_job_id(job_url[2]), validated[2]>>)]

\* the loop over candidates lo..hi in list order, evaluated by halves: the
\* first half is computed before the second half starts from its result
RECURSIVE Step1(_, _, _, _, _)
Step1(jobs, lo, hi, acc, now) ==
    IF lo > hi THEN acc
    ELSE IF lo = hi THEN Step1Body(jobs[lo], acc, now)
    ELSE LET mid  == (lo + hi) \div 2
             left == Step1(jobs, lo, mid, acc, now)
         IN  IF left.validation_failed >= 0
             THEN Step1(jobs, mid + 1, hi, left, now)
             ELSE acc

----------------------------------------------------------------------------
\* DynamoDBBatchWriter

batch_size == 25
chunk_size == 100

\* [seq[i:i + size] for i in range(0, len(seq), size)]
Slices(seq, size) ==
    [ c \in 1..((Len(seq) + size - 1) \div size) |->
        SubSeq(seq, (c - 1) * size + 1, Min(c * size, Len(seq))) ]

StoreIds(st) == { item.job_id : item \in st }

\* table.put_item(Item=item): the item replaces the stored item of the same key.
\* The variant adds the item and leaves the stored one in place.
PutItem_add(st, item) == st \cup {item}
PutItem(st, item) == { x \in st : x.job_id # item.job_id } \cup {item}

RECURSIVE PutItems(_, _, _)
PutItems(st, batch, k) ==
    IF k = 0 THEN st ELSE PutItem(PutItems(st, batch, k - 1), batch[k])

\* _check_existing_batch: the ids of the chunk found in the table; an exception
\* of batch_get_item leaves the set empty. The variant reports every id of
\* the chunk as found when the call raised.
CheckExistingBatchResult_all(chunk, st, raised) ==
    IF raised THEN { chunk[i] : i \in 1..Len(chunk) }
    ELSE { chunk[i] : i \in 1..Len(chunk) } \cap StoreIds(st)
CheckExistingBatchResult(chunk, st, raised) ==
    IF raised THEN {} ELSE { chunk[i] : i \in 1..Len(chunk) } \cap StoreIds(st)

\* the union check_existing_jobs builds from the gathered results
RECURSIVE ExistingIds(_, _)
ExistingIds(res, c) ==
    IF c = 0 THEN {}
    ELSE ExistingIds(res, c - 1) \cup (IF res[c].exception THEN {} ELSE res[c].ids)

\* what _write_batch returns. The variant counts a failed batch as one error.
WriteBatchResult_one(batch, raised) ==
    IF raised = "none"
    THEN [ success_count |-> Len(batch), error_count |-> 0, errors |-> << >> ]
    ELSE [ success_count |-> 0, error_count |-> 1, errors |-> << <<raised>> >> ]
WriteBatchResult(batch, raised) ==
    IF raised = "none"
    THEN [ success_count |-> Len(batch), error_count |-> 0, errors |-> << >> ]
    ELSE [ success_count |-> 0, error_count |-> Len(batch), errors |-> << <<raised>> >> ]

\* the sums batch_write_jobs forms over the gathered results
RECURSIVE BatchWriteJobsResult(_, _)
BatchWriteJobsResult(res, b) ==
    IF b = 0 THEN [ success_count |-> 0, error_count |-> 0, errors |-> << >> ]
    ELSE LET r == BatchWriteJobsResult(res, b - 1)
         IN  IF res[b].exception
             THEN [ r EXCEPT !.error_count = @ + 1, !.errors = Append(@, res[b].errors[1]) ]
             ELSE [ success_count |-> r.success_count + res[b].success_count,
                    error_count |-> r.error_count + res[b].error_count,
                    errors |-> r.errors \o res[b].errors ]

\* how many leading items of a batch may already be in the table when its write
\* raises: none, or all but the last
PersistedOnFailure(batch) == {0, Len(batch) - 1}

WriteFailures == {"DynamoDB ClientError", "DynamoDB BotoCoreError", "Unexpected error writing batch"}

----------------------------------------------------------------------------
\* JobProcessor.process_scraped_jobs, step 3: separate new jobs from updates

\* `job_id in existing_job_ids`. The variant never finds an id.
IsExisting_never(job_id, existing) == FALSE
IsExisting(job_id, existing) == job_id \in existing

\* the body of the loop over valid_jobs for one (job_id, job_data)
Step3Body(pair, acc, existing, now) ==
    LET job_record == create_job_record(pair[2], pair[1])
    IN  IF ~Truthy(job_record)
        THEN [acc EXCEPT !.validation_failed = @ + 1]
        ELSE IF IsExisting(pair[1], existing)
        THEN [acc EXCEPT !.updated_job_records =
                           Append(@, [job_record[2] EXCEPT !.updated_at = Time(now)])]
        ELSE [acc EXCEPT !.new_job_records = Append(@, job_record[2])]

\* the loop over entries lo..hi of valid_jobs in list order, evaluated by halves
\* in the same way
RECURSIVE Step3(_, _, _, _, _, _)
Step3(jobs, lo, hi, acc, existing, now) ==
    IF lo > hi THEN acc
    ELSE IF lo = hi THEN Step3Body(jobs[lo], acc, existing, now)
    ELSE LET mid  == (lo + hi) \div 2
             left == Step3(jobs, lo, mid, acc, existing, now)
         IN  IF left.validation_failed >= 0
             THEN Step3(jobs, mid + 1, hi, left, existing, now)
             ELSE acc

----------------------------------------------------------------------------
\* The candidates the scrapers hand to the processor

Str_link1 == Str_https \o <<120, 47, 49, 63, 114>>          \* "https://x/1?r"
Str_link1b == Str_https \o <<88, 47, 49, 35, 102>>          \* "https://X/1#f"
Str_link2 == Str_https \o <<120, 47, 50>>                   \* "https://x/2"
Str_link3 == Str_https \o <<120, 47, 51>>                   \* "https://x/3"

Job(title, link, city, exp, date) ==
    [ job_title |-> title, company_name |-> S(<<67>>), link |-> link,
      source |-> S(<<108, 105>>), city |-> city, year_of_experience |-> exp,
      published_date |-> date, description |-> Absent, salary_range |-> Absent ]

JobPool ==
    { Job(S(<<84>>), S(Str_link1), S(Str_Paris), I(3), S(Str_date)),
      Job(S(<<84>>), S(Str_link1b), S(Str_Paris), S(<<51>>), S(Str_date)),
      Job(Absent, S(Str_link2), S(Str_Paris), I(1), S(Str_date)),
      Job(S(<<85>>), S(Str_link2), S(Str_Lyon), I(99), Absent),
      Job(S(<<84>>), Absent, S(Str_Paris), I(1), S(Str_date)),
      Job(S(<<32>>), S(Str_link3), S(Str_Paris), I(1), S(Str_date)) }

----------------------------------------------------------------------------
\* One run of the processor over source_pages

\* the locals of process_scraped_jobs are gone once it has returned
Returned(final_stats, final_store, records) ==
    /\ ppc' = "idle"
    /\ stats' = NewStats(0)
    /\ valid_jobs' = << >>
    /\ chunk_res' = << >>
    /\ existing_job_ids' = {}
    /\ batch_res' = << >>
    /\ write_records' = << >>
    /\ hist' = [hist EXCEPT ![Len(hist)] =
                 [@ EXCEPT !.done = TRUE, !.stats = final_stats, !.after = final_store,
                           !.records = records,
                           !.existing = existing_job_ids,
                           !.store_ok = /\ \A c \in DOMAIN chunk_res : ~chunk_res[c].raised
                                        /\ \A b \in DOMAIN batch_res : batch_res[b].raised = "none"]]

RunEntry ==
    [ done |-> FALSE, before |-> store, after |-> store, stats |-> NewStats(0),
      crashed |-> FALSE, records |-> << >>, existing |-> {}, store_ok |-> TRUE ]

\* process_scraped_jobs from its entry to the await of check_existing_jobs, on
\* a JobProcessor whose deduplicator holds `seen`
EnterProcess(seen) ==
    /\ ppc = "idle"
    /\ Len(hist) < MaxRuns
    /\ LET now == clock + 1
           r   == Step1(source_pages, 1, Len(source_pages),
                        [ valid_jobs |-> << >>, seen_urls |-> seen,
                          duplicates_filtered |-> 0, validation_failed |-> 0 ], now)
       IN  /\ clock' = now
           /\ seen_urls' = r.seen_urls
           /\ valid_jobs' = r.valid_jobs
           /\ stats' = [ NewStats(Len(source_pages)) EXCEPT
                           !.duplicates_filtered = r.duplicates_filtered,
                           !.validation_failed = r.validation_failed ]
           /\ chunk_res' = [ c \in DOMAIN Slices(r.valid_jobs, chunk_size) |->
                               [ state |-> "pending", raised |-> FALSE, ids |-> {} ] ]
    /\ ppc' = "checking"
    /\ hist' = Append(hist, RunEntry)
    /\ UNCHANGED <<source_pages, store, existing_job_ids, write_records, batch_res>>

\* one invocation: lambda_handler builds a new orchestrator, hence a new
\* JobProcessor with an empty deduplicator, and process_scraped_jobs runs step 1
StartRun == EnterProcess({})

\* a further process_scraped_jobs call on the JobProcessor of the previous
\* call: self.deduplicator is the one built by __init__
CallAgain ==
    /\ hist # << >>
    /\ EnterProcess(seen_urls)

\* an exception of the processor's own logic at candidate k of step 1
Step1Raises(k) ==
    /\ ppc = "idle"
    /\ Len(hist) < MaxRuns
    /\ k \in 1..Len(source_pages)
    /\ LET now == clock + 1
           r   == Step1(source_pages, 1, k - 1,
                        [ valid_jobs |-> << >>, seen_urls |-> {},
                          duplicates_filtered |-> 0, validation_failed |-> 0 ], now)
       IN  /\ clock' = now
           /\ seen_urls' = r.seen_urls
           /\ hist' = Append(hist,
                        [ RunEntry EXCEPT !.done = TRUE, !.crashed = TRUE,
                            !.stats = [ NewStats(Len(source_pages)) EXCEPT
                                          !.duplicates_filtered = r.duplicates_filtered,
                                          !.validation_failed = r.validation_failed,
                                          !.errors = << <<"Error in job processing pipeline">> >> ] ])
    /\ UNCHANGED <<source_pages, store, ppc, stats, valid_jobs, chunk_res, existing_job_ids,
                   write_records, batch_res>>

\* one executor task of check_existing_jobs
CheckExistingBatch(c, raised) ==
    /\ ppc = "checking"
    /\ c \in DOMAIN chunk_res
    /\ chunk_res[c].state = "pending"
    /\ LET job_ids == [ i \in DOMAIN valid_jobs |-> valid_jobs[i][1] ]
           chunk   == Slices(job_ids, chunk_size)[c]
       IN  chunk_res' = [ chunk_res EXCEPT ![c] =
                            [ state |-> "returned", raised |-> raised,
                              ids |-> CheckExistingBatchResult(chunk, store, raised) ] ]
    /\ UNCHANGED <<source_pages, store, seen_urls, ppc, clock, stats, valid_jobs,
                   existing_job_ids, write_records, batch_res, hist>>

\* check_existing_jobs returns; steps 3 and 4 up to the await of batch_write_jobs
CheckExistingReturn ==
    /\ ppc = "checking"
    /\ \A c \in DOMAIN chunk_res : chunk_res[c].state = "returned"
    /\ LET existing == ExistingIds([ c \in DOMAIN chunk_res |->
                                       [ exception |-> FALSE, ids |-> chunk_res[c].ids ] ],
                                   Len(chunk_res))
           now == clock + 1
           r   == Step3(valid_jobs, 1, Len(valid_jobs),
                        [ new_job_records |-> << >>, updated_job_records |-> << >>,
                          validation_failed |-> 0 ], existing, now)
           all_records == r.new_job_records \o r.updated_job_records
           st  == [ stats EXCEPT !.validation_failed = @ + r.validation_failed,
                                 !.new_jobs = Len(r.new_job_records),
                                 !.updated_jobs = Len(r.updated_job_records) ]
       IN  /\ clock' = now
           /\ IF all_records = << >>
              THEN Returned(st, store, all_records)
              ELSE /\ ppc' = "writing"
                   /\ write_records' = all_records
                   /\ stats' = st
                   /\ existing_job_ids' = existing
                   /\ batch_res' = [ b \in DOMAIN Slices(all_records, batch_size) |->
                                       [ state |-> "pending", exception |-> FALSE, raised |-> "none",
                                         success_count |-> 0, error_count |-> 0, errors |-> << >> ] ]
                   /\ UNCHANGED <<valid_jobs, chunk_res, hist>>
    /\ UNCHANGED <<source_pages, store, seen_urls>>

\* one executor task of batch_write_jobs: _write_batch on batch b
WriteBatch(b, raised, k) ==
    /\ ppc = "writing"
    /\ b \in DOMAIN batch_res
    /\ batch_res[b].state = "pending"
    /\ LET batch == Slices(write_records, batch_size)[b]
           ret   == WriteBatchResult(batch, raised)
       IN  /\ raised = "none" => k = Len(batch)
           /\ raised # "none" => k \in PersistedOnFailure(batch)
           /\ store' = PutItems(store, batch, k)
           /\ batch_res' = [ batch_res EXCEPT ![b] =
                               [ state |-> "returned", exception |-> FALSE, raised |-> raised,
                                 success_count |-> ret.success_count,
                                 error_count |-> ret.error_count, errors |-> ret.errors ] ]
    /\ UNCHANGED <<source_pages, seen_urls, ppc, clock, stats, valid_jobs, chunk_res,
                   existing_job_ids, write_records, hist>>

\* batch_write_jobs returns and process_scraped_jobs returns its stats
BatchWriteReturn ==
    /\ ppc = "writing"
    /\ \A b \in DOMAIN batch_res : batch_res[b].state = "returned"
    /\ LET write_result == BatchWriteJobsResult(batch_res, Len(batch_res))
       IN  Returned([ stats EXCEPT !.db_write_success = write_result.success_count,
                                   !.db_write_errors = write_result.error_count,
                                   !.errors = @ \o write_result.errors ],
                    store, write_records)
    /\ UNCHANGED <<source_pages, store, seen_urls, clock>>

ProcIdle ==
    /\ store = {}
    /\ seen_urls = {}
    /\ ppc = "idle"
    /\ clock = 0
    /\ stats = NewStats(0)
    /\ valid_jobs = << >>
    /\ chunk_res = << >>
    /\ existing_job_ids = {}
    /\ write_records = << >>
    /\ batch_res = << >>
    /\ hist = << >>

FetchIdle == FetchInit /\ urls = << >> /\ max_concurrent_per_source = 1

\* the results dictionary run_all_scrapers starts from (the wall-clock fields
\* are left out); raised tells whether the call ended by an exception
NewResults ==
    [ scraping_stats |-> << >>, processing_stats |-> Dict(<< >>),
      total_jobs_scraped |-> 0, total_jobs_processed |-> 0, errors |-> << >> ]

OrchIdle ==
    /\ opc = "idle"
    /\ scraping_results = << >>
    /\ orch_results = [ raised |-> FALSE, results |-> NewResults ]

\* the table is empty and no handler has been invoked
ApiIdle ==
    /\ job_table = {}
    /\ http_response = [ statusCode |-> 0, body |-> None ]
    /\ uuid_count = 0

\* no call of a single function has been made
CallIdle ==
    /\ call_args = << >>
    /\ call_rets = << >>

Init ==
    /\ FetchIdle
    /\ OrchIdle
    /\ ApiIdle
    /\ CallIdle
    /\ source_pages \in UNION { [1..n -> JobPool] : n \in 0..MaxJobs }
    /\ ProcIdle

Next ==
    \/ StartRun /\ UNCHANGED <<fetchVars, orchVars, callVars, apiVars>>
    \/ \E c \in 1..MaxChunks : \E raised \in BOOLEAN : CheckExistingBatch(c, raised) /\ UNCHANGED <<fetchVars, orchVars, callVars, apiVars>>
    \/ CheckExistingReturn /\ UNCHANGED <<fetchVars, orchVars, callVars, apiVars>>
    \/ \E b \in 1..MaxBatches : \E raised \in WriteFailures \cup {"none"} : \E k \in 0..batch_size :
          WriteBatch(b, raised, k) /\ UNCHANGED <<fetchVars, orchVars, callVars, apiVars>>
    \/ BatchWriteReturn /\ UNCHANGED <<fetchVars, orchVars, callVars, apiVars>>

Spec == Init /\ [][Next]_vars

\* runs over candidates that all carry the url "https://x/3": one with a
\* blank title, one without a title, and one that is complete
SameUrlPool ==
    { Job(S(<<32>>), S(Str_link3), S(Str_Paris), I(1), S(Str_date)),
      Job(Absent, S(Str_link3), S(Str_Paris), I(1), S(Str_date)),
      Job(S(<<84>>), S(Str_link3), S(Str_Paris), I(1), S(Str_date)) }

InitSameUrl ==
    /\ FetchIdle
    /\ OrchIdle
    /\ ApiIdle
    /\ CallIdle
    /\ source_pages \in UNION { [1..n -> SameUrlPool] : n \in 0..MaxJobs }
    /\ ProcIdle

SpecSameUrl == InitSameUrl /\ [][Next]_vars

\* a JobProcessor that is called more than once before a new one is built
NextProcessor ==
    \/ Next
    \/ CallAgain /\ UNCHANGED <<fetchVars, orchVars, callVars, apiVars>>

SpecProcessor == Init /\ [][NextProcessor]_vars

\* the fetcher alone
InitFetch ==
    /\ FetchInit
    /\ OrchIdle
    /\ ApiIdle
    /\ CallIdle
    /\ source_pages = << >>
    /\ ProcIdle

SpecFetch == InitFetch /\ [][FetchNext]_vars

\* the event loop runs every task that is ready
EventLoop ==
    /\ \E t \in Tasks : StartFetch(t) \/ Acquire(t) \/ WakeRate(t) \/ WakeBackoff(t)
    /\ UNCHANGED <<procVars, orchVars, callVars, apiVars>>

\* the gather is resumed once its tasks are done, and fetch_multiple_pages
\* returns: the step FetchMultiplePagesReturn
GatherResumes ==
    /\ results = NotGathered
    /\ \A t \in Tasks : fpc[t] = "done"
    /\ results' \in { [i \in 1..Len(GatherResults) |-> ProcessResult(GatherResults[i])] }
    /\ UNCHANGED <<session, max_concurrent_per_source, semaphores, last_request_times,
                   urls, fpc, fnow, fsleep, ok200, fresult, out_of_order, since_get,
                   get_gap, backoffs, gets, procVars, orchVars, callVars, apiVars>>

\* every HTTP exchange ends: with a status, or with the ClientTimeout of the
\* session, or with an error
HttpCompletes ==
    /\ \E t \in Tasks : Response(t)
    /\ UNCHANGED <<procVars, orchVars, callVars, apiVars>>

TimePasses == Tick /\ UNCHANGED <<procVars, orchVars, callVars, apiVars>>

\* what a step of a task, of the clock or of the gather changes: every such
\* step that changes the state changes this part of it
progress == <<fpc, fsleep, fnow, last_request_times, since_get, results # NotGathered>>

SpecFetchLive ==
    /\ InitFetch
    /\ [][FetchNext]_vars
    /\ WF_progress(EventLoop)
    /\ WF_progress(GatherResumes)
    /\ WF_progress(HttpCompletes)
    /\ WF_progress(TimePasses)

----------------------------------------------------------------------------
\* Calls of generate_job_id on two urls built from one base

MaxCalls == 3

Str_base1 == Str_https \o <<120, 47, 49>>                   \* "https://x/1"
Str_base1u == <<32>> \o Str_https \o <<88, 47, 49>>         \* " https://X/1"
Str_base2 == Str_https \o <<120, 47, 50, 47>>               \* "https://x/2/"

UrlBases == { Str_base1, Str_base1u, Str_base2 }

\* "", "?r", "#f", "?r#f", "#f?r", "?"
UrlSuffixes == { << >>, <<63, 114>>, <<35, 102>>, <<63, 114, 35, 102>>,
                 <<35, 102, 63, 114>>, <<63>> }

\* apiclient/mapper.py generate_job_id
mapper_generate_job_id(url) == Sha16(Lower(Strip(SplitFirst(SplitFirst(url, 63), 35))))

Returns(fn, url, value) ==
    call_rets' = Append(call_rets, [ fn |-> fn, url |-> url, value |-> value ])

\* self.deduplicator.generate_job_id(url)
GenerateJobId(u) ==
    /\ Len(call_rets) < MaxCalls
    /\ Returns("generate_job_id", u, generate_job_id(u))
    /\ UNCHANGED <<call_args, procVars>>

\* self.deduplicator.add_job(url): returns the id and remembers the url
AddJob(u) ==
    /\ Len(call_rets) < MaxCalls
    /\ Returns("add_job", u, generate_job_id(u))
    /\ seen_urls' = add_job(u, seen_urls)
    /\ UNCHANGED <<call_args, source_pages, store, ppc, clock, stats, valid_jobs, chunk_res,
                   existing_job_ids, write_records, batch_res, hist>>

\* the module-level generate_job_id of the API client's mapper
MapperGenerateJobId(u) ==
    /\ Len(call_rets) < MaxCalls
    /\ Returns("mapper.generate_job_id", u, mapper_generate_job_id(u))
    /\ UNCHANGED <<call_args, procVars>>

InitId ==
    /\ FetchIdle
    /\ OrchIdle
    /\ ApiIdle
    /\ source_pages = << >>
    /\ ProcIdle
    /\ call_args \in { <<base, base \o s1, base \o s2>> :
                         base \in UrlBases, s1 \in UrlSuffixes, s2 \in UrlSuffixes }
    /\ call_rets = << >>

NextId ==
    \/ \E i \in 1..3 : GenerateJobId(call_args[i]) /\ UNCHANGED <<fetchVars, orchVars, apiVars>>
    \/ \E i \in 1..3 : AddJob(call_args[i]) /\ UNCHANGED <<fetchVars, orchVars, apiVars>>
    \/ \E i \in 1..3 : MapperGenerateJobId(call_args[i]) /\ UNCHANGED <<fetchVars, orchVars, apiVars>>

SpecId == InitId /\ [][NextId]_vars

\* shared/validation.py generate_job_id
validation_generate_job_id(job_url) ==
    IF job_url = << >> THEN ValueError ELSE Sha16(Lower(Strip(job_url)))

\* the module-level generate_job_id of shared/validation.py
ValidationGenerateJobId(u) ==
    /\ Len(call_rets) < MaxCalls
    /\ Returns("validation.generate_job_id", u, validation_generate_job_id(u))
    /\ UNCHANGED <<call_args, procVars>>

\* calls of all the id functions of the code base
NextIdAll ==
    \/ NextId
    \/ \E i \in 1..3 : ValidationGenerateJobId(call_args[i]) /\ UNCHANGED <<fetchVars, orchVars, apiVars>>

SpecIdAll == InitId /\ [][NextIdAll]_vars

----------------------------------------------------------------------------
\* One job page: what a scraper extracts from it and what the validator makes
\* of the extracted candidate

Scrapers == {"linkedin", "glassdoor", "leem"}

\* the job_data a scraper has filled in before its required-fields check; a
\* selector that matches nothing leaves the key out, and the city key is only
\* set to a gazetteer city found in the location text
PageData ==
    { [ Job(title, S(Str_link2), city, exp, Absent) EXCEPT !.company_name = company ] :
        title \in {S(<<84>>), S(<< >>), Absent}, company \in {S(<<67>>), Absent},
        city \in {S(Str_paris), S(Str_versailles), Absent}, exp \in {I(3), Absent} }

\* all(field in job_data and job_data[field] for field in required_fields)
HasFields(job_data, required_fields) ==
    \A f \in required_fields : Truthy(Get(job_data[f]))

\* the end of _extract_job_data_from_page: the candidate, or None
ExtractJobData(scraper, job_data) ==
    IF scraper = "leem"
    THEN IF HasFields(job_data, {"job_title", "company_name"})
         THEN Dict(IF job_data.city = Absent
                   THEN [job_data EXCEPT !.city = S(Str_Paris)] ELSE job_data)
         ELSE None
    ELSE IF HasFields(job_data, {"job_title", "company_name", "city"})
         THEN Dict(job_data)
         ELSE None

\* the scraper finishes the extraction of the page
Extract ==
    /\ call_rets = << >>
    /\ call_rets' = << ExtractJobData(call_args.scraper, call_args.job_data) >>
    /\ UNCHANGED <<call_args, procVars>>

\* the processor validates the candidate and builds its record
\* (validate_job_data, then create_job_record)
Normalize ==
    /\ Len(call_rets) = 1
    /\ call_rets[1] # None
    /\ LET validated == validate_job_data(call_rets[1][2], clock + 1)
       IN  /\ call_rets' = Append(call_rets,
                  IF validated = None THEN None
                  ELSE create_job_record(validated[2], generate_job_id(validated[2].link)))
           /\ clock' = clock + 1
    /\ UNCHANGED <<call_args, source_pages, store, seen_urls, ppc, stats, valid_jobs, chunk_res,
                   existing_job_ids, write_records, batch_res, hist>>

InitExtract ==
    /\ FetchIdle
    /\ OrchIdle
    /\ ApiIdle
    /\ source_pages = << >>
    /\ ProcIdle
    /\ call_args \in [ scraper : Scrapers, job_data : PageData ]
    /\ call_rets = << >>

NextExtract ==
    \/ Extract /\ UNCHANGED <<fetchVars, orchVars, apiVars>>
    \/ Normalize /\ UNCHANGED <<fetchVars, orchVars, apiVars>>

SpecExtract == InitExtract /\ [][NextExtract]_vars

----------------------------------------------------------------------------
\* scrape_jobs of one scraper over its fetched job pages, followed by
\* process_scraped_jobs over what it returned

MaxPages == 2

\* a page whose extraction raises: _extract_job_data_from_page catches the
\* exception and returns None
ExtractionRaises == <<"raises", "Exception">>

ScrapedPages == {ExtractionRaises} \cup { Dict(p) : p \in PageData }

ExtractPage(scraper, page) ==
    IF page = ExtractionRaises THEN None ELSE ExtractJobData(scraper, page[2])

\* the loop of scrape_jobs over the first k pages: `if job_data:
\* all_jobs.append(job_data)`
RECURSIVE AllJobs(_, _, _)
AllJobs(scraper, pages, k) ==
    IF k = 0 THEN << >>
    ELSE LET job_data == ExtractPage(scraper, pages[k])
         IN  IF job_data = None THEN AllJobs(scraper, pages, k - 1)
             ELSE Append(AllJobs(scraper, pages, k - 1), job_data[2])

\* scrape_jobs returns all_jobs
ScrapeJobsReturn ==
    /\ call_rets = << >>
    /\ source_pages' = AllJobs(call_args.scraper, call_args.pages, Len(call_args.pages))
    /\ call_rets' = << I(Len(source_pages')) >>
    /\ UNCHANGED <<call_args, store, seen_urls, ppc, clock, stats, valid_jobs, chunk_res,
                   existing_job_ids, write_records, batch_res, hist>>

\* the orchestrator hands the scraped jobs to a new JobProcessor
ProcessScraped ==
    /\ call_rets # << >>
    /\ StartRun
    /\ UNCHANGED callVars

InitScrape ==
    /\ FetchIdle
    /\ OrchIdle
    /\ ApiIdle
    /\ source_pages = << >>
    /\ ProcIdle
    /\ call_args \in [ scraper : Scrapers,
                       pages : UNION { [1..n -> ScrapedPages] : n \in 0..MaxPages } ]
    /\ call_rets = << >>

NextScrape ==
    \/ ScrapeJobsReturn /\ UNCHANGED <<fetchVars, orchVars, apiVars>>
    \/ ProcessScraped /\ UNCHANGED <<fetchVars, orchVars, apiVars>>
    \/ \E c \in 1..MaxChunks : \E raised \in BOOLEAN :
          CheckExistingBatch(c, raised) /\ UNCHANGED <<fetchVars, orchVars, callVars, apiVars>>
    \/ CheckExistingReturn /\ UNCHANGED <<fetchVars, orchVars, callVars, apiVars>>
    \/ \E b \in 1..MaxBatches : \E raised \in WriteFailures \cup {"none"} : \E k \in 0..batch_size :
          WriteBatch(b, raised, k) /\ UNCHANGED <<fetchVars, orchVars, callVars, apiVars>>
    \/ BatchWriteReturn /\ UNCHANGED <<fetchVars, orchVars, callVars, apiVars>>

SpecScrape == InitScrape /\ [][NextScrape]_vars

----------------------------------------------------------------------------
\* The Adzuna API client: apiclient/lambda_handler.py, mapper.py, db_writer.py

MaxInvocations == 2
MaxAdzunaJobs == 2

Float(n) == <<"float", n>>

\* one entry of the 'results' list of the API response
AdzunaJob(title, url, salary) ==
    [ title |-> title, display_name |-> S(<<67>>), redirect_url |-> url,
      created |-> S(Str_date), description |-> S(<<100>>), average_salary |-> salary ]

AdzunaPool ==
    { AdzunaJob(S(<<84>>), S(Str_link1), Absent),
      AdzunaJob(S(<<85>>), S(Str_link2), Absent),
      AdzunaJob(Absent, S(Str_link3), Absent),
      AdzunaJob(S(<<86>>), S(Str_link3), Float(5)) }

\* what call_api returns: None, or the decoded response with its results
AdzunaResponses ==
    {None} \cup { Dict(r) : r \in UNION { [1..n -> AdzunaPool] : n \in 0..MaxAdzunaJobs } }

\* JobModel(**fields): pydantic refuses a missing or None value of a required
\* field
JobModelRequired == { "id", "job_title", "company_name", "link", "source",
                      "year_of_experience", "published_date" }

ValidationError == <<"raises", "ValidationError">>

JobModel_lenient(fields) == Dict(fields)

JobModel(fields) ==
    IF \E f \in JobModelRequired : Get(fields[f]) = None
    THEN ValidationError
    ELSE Dict(fields)

\* the JobModel map_adzuna_job builds for one result
MapAdzunaJob(job, now) ==
    JobModel([ id |-> generate_job_id(IF job.redirect_url = Absent THEN << >>
                                      ELSE job.redirect_url[2]),
               job_title |-> Get(job.title),
               company_name |-> Get(job.display_name),
               link |-> Get(job.redirect_url),
               source |-> S(<<97, 100, 122, 117, 110, 97>>),
               year_of_experience |-> I(0 - 1),
               published_date |-> Get(job.created),
               description |-> Get(job.description),
               salary_range |-> Get(job.average_salary),
               created_at |-> Time(now),
               updated_at |-> Time(now) ])

\* map_adzuna_job: the list of models, or the ValidationError of the first
\* result pydantic refuses
map_adzuna_job(job_data, now) ==
    IF \E i \in 1..Len(job_data) : MapAdzunaJob(job_data[i], now) = ValidationError
    THEN ValidationError
    ELSE Dict([ i \in 1..Len(job_data) |-> MapAdzunaJob(job_data[i], now)[2] ])

\* table.put_item on the table keyed by id
PutById(tbl, item) == { x \in tbl : x.id # item.id } \cup {item}

RECURSIVE PutAllById(_, _, _)
PutAllById(tbl, batch, k) ==
    IF k = 0 THEN tbl ELSE PutById(PutAllById(tbl, batch, k - 1), batch[k])

\* one invocation of the handler: call_api, map_adzuna_job, batch_write_jobs
\* (the results of one page fit in one write batch here); `raised` is the
\* failure of the batch write and k the number of its items that reached the
\* table. boto3 refuses a float attribute before anything is sent.
AdzunaHandler(response, raised, k) ==
    /\ clock < MaxInvocations
    /\ clock' = clock + 1
    /\ LET jobs == IF response = None THEN Dict(<< >>)
                   ELSE map_adzuna_job(response[2], clock + 1)
       IN  IF jobs = ValidationError
           THEN /\ raised = "none" /\ k = 0
                /\ http_response' = [ statusCode |-> 0, body |-> ValidationError ]
                /\ UNCHANGED job_table
           ELSE /\ Len(jobs[2]) <= batch_size
                /\ raised = "none" => k = Len(jobs[2])
                /\ raised # "none" => k \in PersistedOnFailure(jobs[2]) \cap 0..Len(jobs[2])
                /\ (\E i \in 1..Len(jobs[2]) : jobs[2][i].salary_range # None) =>
                       (raised = "Unexpected error writing batch" /\ k = 0)
                /\ (response = None \/ jobs[2] = << >>) => raised = "none"
                /\ job_table' = PutAllById(job_table, jobs[2], k)
                /\ http_response' = [ statusCode |-> 200, body |-> S(<<111, 107>>) ]
    /\ call_args' = [ handler |-> "apiclient", method |-> "", body |-> response,
                       put_raises |-> raised # "none" ]
    /\ UNCHANGED <<call_rets, uuid_count, source_pages, store, seen_urls, ppc, stats, valid_jobs,
                   chunk_res, existing_job_ids, write_records, batch_res, hist>>

----------------------------------------------------------------------------
\* The PUT handler of the API: api/put_job.py

\* a request body that json.loads refuses
InvalidJson == <<"invalid json">>

PutBodyFields == { "id", "job_title", "company_name", "link", "source",
                   "year_of_experience", "published_date", "description", "salary_range" }

PutBody(id, title, exp, description, salary) ==
    [ id |-> id, job_title |-> title, company_name |-> S(<<67>>), link |-> S(Str_link2),
      source |-> S(<<108, 105>>), year_of_experience |-> exp, published_date |-> S(Str_date),
      description |-> description, salary_range |-> salary ]

\* the decoded JSON objects the requests carry; Absent marks a key left out
PutBodies ==
    { Dict(PutBody(id, title, exp, description, salary)) :
        id \in {Absent, S(<<120>>)}, title \in {S(<<84>>), Absent}, exp \in {I(3), I(99)},
        description \in {Absent, S(<<100>>)}, salary \in {Absent, Float(5)} }

Uuid(n) == <<"uuid", n>>

ErrorBody(msg) == <<"error", msg>>

\* one invocation of put_job.handler
PutJob(method, body, put_raises) ==
    /\ clock < MaxInvocations
    /\ clock' = clock + 1
    /\ call_args' = [ handler |-> "put_job", method |-> method, body |-> body,
                       put_raises |-> put_raises ]
    /\ LET now      == clock + 1
           job_data == IF body = InvalidJson THEN ValidationError
                       ELSE JobModel([ f \in PutBodyFields \cup {"created_at", "updated_at"} |->
                                         IF f \in PutBodyFields THEN Get(body[2][f]) ELSE None ])
           job_id   == Uuid(uuid_count + 1)
       IN  IF method # "PUT"
           THEN /\ ~put_raises
                /\ http_response' = [ statusCode |-> 0, body |-> <<"raises", "ValueError">> ]
                /\ UNCHANGED <<job_table, uuid_count>>
           ELSE IF body = InvalidJson
           THEN /\ ~put_raises
                /\ http_response' = [ statusCode |-> 400,
                                       body |-> ErrorBody("Invalid JSON in request body") ]
                /\ UNCHANGED <<job_table, uuid_count>>
           ELSE IF job_data = ValidationError
           THEN /\ ~put_raises
                /\ http_response' = [ statusCode |-> 400, body |-> ErrorBody("Invalid request data") ]
                /\ UNCHANGED <<job_table, uuid_count>>
           ELSE /\ uuid_count' = uuid_count + 1
                /\ IF put_raises
                   THEN /\ http_response' = [ statusCode |-> 500,
                                               body |-> ErrorBody("Failed to create/update job") ]
                        /\ UNCHANGED job_table
                   ELSE /\ job_table' = PutById(job_table,
                               [ job_data[2] EXCEPT
                                   !.id = job_id,
                                   !.description = IF Truthy(@) THEN @ ELSE None,
                                   !.salary_range = IF Truthy(@) THEN @ ELSE None,
                                   !.created_at = Time(now), !.updated_at = Time(now) ])
                        /\ http_response' =
                              [ statusCode |-> 200,
                                body |-> Dict([ f \in PutBodyFields \cup {"created_at", "updated_at"} |->
                                                  IF f = "id" THEN job_id
                                                  ELSE IF f \in {"created_at", "updated_at"} THEN Time(now)
                                                  ELSE body[2][f] ]) ]
    /\ UNCHANGED <<call_rets, source_pages, store, seen_urls, ppc, stats, valid_jobs, chunk_res,
                   existing_job_ids, write_records, batch_res, hist>>

----------------------------------------------------------------------------
\* The GET handler of the API: api/get_all_jobs.py

\* the number of items one page of table.scan() holds (1 MB of data, counted
\* here in items of equal size)
ScanPageItems == 2

\* json.dumps(items, default=str): the numbers of an item come back from the
\* table as Decimal, which json cannot encode, and are written as str(number)
DefaultStr(v) == IF v[1] \in {"int", "float"} THEN <<"str", <<"Decimal", v[2]>>>> ELSE v

JsonItem(item) == [ f \in DOMAIN item |-> DefaultStr(item[f]) ]

\* the Items of the response of one table.scan(): the first page, in the
\* order of the scan
ScanPages(tbl) ==
    LET n == IF Cardinality(tbl) <= ScanPageItems THEN Cardinality(tbl) ELSE ScanPageItems
    IN  { page \in [1..n -> tbl] : \A i, j \in 1..n : page[i] = page[j] => i = j }

\* one invocation of get_all_jobs.handler
GetAllJobs(method, scan_raises, items) ==
    /\ call_args' = [ handler |-> "get_all_jobs", method |-> method, body |-> None,
                       put_raises |-> scan_raises ]
    /\ IF method # "GET"
       THEN /\ ~scan_raises
            /\ items = << >>
            /\ http_response' = [ statusCode |-> 0, body |-> <<"raises", "ValueError">> ]
       ELSE IF scan_raises
       THEN /\ items = << >>
            /\ http_response' = [ statusCode |-> 500,
                                   body |-> ErrorBody("Failed to retrieve items") ]
       ELSE /\ items \in ScanPages(job_table)
            /\ http_response' = [ statusCode |-> 200,
                                   body |-> <<"list", [ i \in DOMAIN items |-> JsonItem(items[i]) ]>> ]
    /\ UNCHANGED <<clock, job_table, uuid_count, call_rets, source_pages, store, seen_urls, ppc,
                   stats, valid_jobs, chunk_res, existing_job_ids, write_records, batch_res, hist>>

InitApi ==
    /\ FetchIdle
    /\ OrchIdle
    /\ ApiIdle
    /\ CallIdle
    /\ source_pages = << >>
    /\ ProcIdle

NextApi ==
    \/ \E response \in AdzunaResponses : \E raised \in WriteFailures \cup {"none"} :
          \E k \in 0..MaxAdzunaJobs :
             AdzunaHandler(response, raised, k) /\ UNCHANGED <<fetchVars, orchVars>>
    \/ \E method \in {"PUT", "GET"} : \E body \in PutBodies \cup {InvalidJson} :
          \E put_raises \in BOOLEAN :
             PutJob(method, body, put_raises) /\ UNCHANGED <<fetchVars, orchVars>>
    \/ \E method \in {"GET", "PUT"} : \E scan_raises \in BOOLEAN :
          \E items \in ScanPages(job_table) \cup {<< >>} :
             GetAllJobs(method, scan_raises, items) /\ UNCHANGED <<fetchVars, orchVars>>

SpecApi == InitApi /\ [][NextApi]_vars

----------------------------------------------------------------------------
\* validate_job_data on one candidate, for each year_of_experience value

MaxExperience == 53

\* "3", " 7 ", "+5", "-3", "51", "x", "", "3.5"
ExperienceStrings ==
    { <<51>>, <<32, 55, 32>>, <<43, 53>>, <<45, 51>>, <<53, 49>>, <<120>>, << >>, <<51, 46, 53>> }

ExperienceInputs ==
    { I(n) : n \in (0 - 3)..MaxExperience } \cup { S(t) : t \in ExperienceStrings }
      \cup { Float(n) : n \in {0 - 1, 0, 50, 51} } \cup { None, Absent, Inf }

\* JobValidator.validate_job_data(job_data) on an otherwise valid candidate
ValidateJobData ==
    /\ call_rets = << >>
    /\ call_rets' = << validate_job_data(
                          Job(S(<<84>>), S(Str_link2), S(Str_Paris), call_args, S(Str_date)),
                          clock + 1) >>
    /\ clock' = clock + 1
    /\ UNCHANGED <<call_args, source_pages, store, seen_urls, ppc, stats, valid_jobs, chunk_res,
                   existing_job_ids, write_records, batch_res, hist>>

InitExperience ==
    /\ FetchIdle
    /\ OrchIdle
    /\ ApiIdle
    /\ source_pages = << >>
    /\ ProcIdle
    /\ call_args \in ExperienceInputs
    /\ call_rets = << >>

NextExperience == ValidateJobData /\ UNCHANGED <<fetchVars, orchVars, apiVars>>

SpecExperience == InitExperience /\ [][NextExperience]_vars

----------------------------------------------------------------------------
\* validate_ile_de_france_city on one value

\* s.upper(), for the letters a-z
Upper(s) == [ i \in 1..Len(s) |-> IF s[i] >= 97 /\ s[i] <= 122 THEN s[i] - 32 ELSE s[i] ]

\* s.capitalize(), for a lower-case s
Capitalized(s) == IF s = << >> THEN s ELSE Upper(SubSeq(s, 1, 1)) \o Tail(s)

Str_Marseille == <<77, 97, 114, 115, 101, 105, 108, 108, 101>>     \* "Marseille"
Str_st_denis == Str_st_ \o <<100, 101, 110, 105, 115>>             \* "st-denis"

\* a gazetteer name as written, in upper case or capitalized, bare or with
\* whitespace around it
Spellings(c) ==
    { pre \o w \o post : w \in {c, Upper(c), Capitalized(c)},
                          pre \in {<< >>, <<32>>}, post \in {<< >>, <<32>>, <<10>>} }

CityInputs ==
    { S(w) : w \in UNION { Spellings(c) : c \in ILE_DE_FRANCE_CITIES } }
      \cup { S(Str_Lyon), S(Str_Marseille), S(Lower(Str_Lyon)), S(Str_st_denis), S(<< >>),
             S(<<32>>), None, I(75) }

\* validate_ile_de_france_city(city)
ValidateCity ==
    /\ call_rets = << >>
    /\ call_rets' = << validate_ile_de_france_city(call_args) >>
    /\ UNCHANGED <<call_args, procVars>>

InitCity ==
    /\ FetchIdle
    /\ OrchIdle
    /\ ApiIdle
    /\ source_pages = << >>
    /\ ProcIdle
    /\ call_args \in CityInputs
    /\ call_rets = << >>

NextCity == ValidateCity /\ UNCHANGED <<fetchVars, orchVars, apiVars>>

SpecCity == InitCity /\ [][NextCity]_vars

----------------------------------------------------------------------------
\* Runs over many candidates, entered in the middle of process_scraped_jobs

RECURSIVE Digits(_)
Digits(n) == IF n < 10 THEN <<48 + n>> ELSE Digits(n \div 10) \o <<48 + (n % 10)>>

\* candidate i of a large scrape: "https://x/<i>"
BulkJob(i) ==
    Job(S(<<84>>), S(Str_https \o <<120, 47>> \o Digits(i)), S(Str_Paris), I(1), S(Str_date))

BulkJobs(n) == [ i \in 1..n |-> BulkJob(i) ]

\* step 1 and step 3 of a run over jobs, begun at time now, with existing the
\* ids check_existing_jobs returned
FirstStep(jobs, now) ==
    Step1(jobs, 1, Len(jobs), [ valid_jobs |-> << >>, seen_urls |-> {},
                     duplicates_filtered |-> 0, validation_failed |-> 0 ], now)
ThirdStep(jobs, existing, now) ==
    Step3(FirstStep(jobs, now).valid_jobs, 1, Len(FirstStep(jobs, now).valid_jobs),
          [ new_job_records |-> << >>, updated_job_records |-> << >>,
            validation_failed |-> 0 ], existing, now + 1)

\* the table after an earlier run wrote every m-th of the jobs (none for m = 0)
EarlierStore(jobs, m) ==
    LET recs == ThirdStep(jobs, {}, 1).new_job_records
    IN  { recs[i] : i \in { j \in 1..Len(recs) : m > 0 /\ j % m = 0 } }

\* process_scraped_jobs awaits check_existing_jobs
AtChecking(jobs, st, now) ==
    LET r == FirstStep(jobs, now)
    IN  /\ source_pages = jobs
        /\ store = st
        /\ clock = now
        /\ seen_urls = r.seen_urls
        /\ valid_jobs = r.valid_jobs
        /\ stats = [ NewStats(Len(jobs)) EXCEPT
                       !.duplicates_filtered = r.duplicates_filtered,
                       !.validation_failed = r.validation_failed ]
        /\ chunk_res = [ c \in DOMAIN Slices(r.valid_jobs, chunk_size) |->
                           [ state |-> "pending", raised |-> FALSE, ids |-> {} ] ]
        /\ ppc = "checking"
        /\ existing_job_ids = {}
        /\ write_records = << >>
        /\ batch_res = << >>
        /\ hist = << [ RunEntry EXCEPT !.before = st, !.after = st ] >>

\* process_scraped_jobs awaits batch_write_jobs, every lookup having succeeded
\* on an empty table
AtWriting(jobs, now) ==
    LET r1 == FirstStep(jobs, now)
        r3 == ThirdStep(jobs, {}, now)
    IN  /\ source_pages = jobs
        /\ store = {}
        /\ clock = now + 1
        /\ seen_urls = r1.seen_urls
        /\ valid_jobs = r1.valid_jobs
        /\ stats = [ NewStats(Len(jobs)) EXCEPT !.new_jobs = Len(r3.new_job_records) ]
        /\ chunk_res = [ c \in DOMAIN Slices(r1.valid_jobs, chunk_size) |->
                           [ state |-> "returned", raised |-> FALSE, ids |-> {} ] ]
        /\ ppc = "writing"
        /\ existing_job_ids = {}
        /\ write_records = r3.new_job_records
        /\ batch_res = [ b \in DOMAIN Slices(r3.new_job_records, batch_size) |->
                           [ state |-> "pending", exception |-> FALSE, raised |-> "none",
                             success_count |-> 0, error_count |-> 0, errors |-> << >> ] ]
        /\ hist = << RunEntry >>

InitResolver ==
    /\ FetchIdle
    /\ OrchIdle
    /\ ApiIdle
    /\ CallIdle
    /\ \E k \in 0..(MaxChunks - 1), r \in 0..MaxTail, m \in 0..MaxStride :
          /\ k * chunk_size + r >= 1
          /\ AtChecking(BulkJobs(k * chunk_size + r),
                        EarlierStore(BulkJobs(k * chunk_size + r), m), 3)

NextResolver ==
    \/ \E c \in 1..MaxChunks : \E raised \in BOOLEAN : CheckExistingBatch(c, raised) /\ UNCHANGED <<fetchVars, orchVars, callVars, apiVars>>
    \/ CheckExistingReturn /\ UNCHANGED <<fetchVars, orchVars, callVars, apiVars>>

SpecResolver == InitResolver /\ [][NextResolver]_vars

InitWriter ==
    /\ FetchIdle
    /\ OrchIdle
    /\ ApiIdle
    /\ CallIdle
    /\ \E k \in 0..(MaxBatches - 1), r \in 0..MaxRemainder :
          /\ k * batch_size + r >= 1
          /\ AtWriting(BulkJobs(k * batch_size + r), 1)

NextWriter ==
    \/ \E b \in 1..MaxBatches : \E raised \in WriteFailures \cup {"none"} : \E k \in 0..batch_size :
          WriteBatch(b, raised, k) /\ UNCHANGED <<fetchVars, orchVars, callVars, apiVars>>
    \/ BatchWriteReturn /\ UNCHANGED <<fetchVars, orchVars, callVars, apiVars>>

SpecWriter == InitWriter /\ [][NextWriter]_vars

----------------------------------------------------------------------------
\* ScraperOrchestrator.run_all_scrapers

Sources == <<"linkedin", "glassdoor", "specialized">>

\* what a source's scrape_jobs coroutine does: it returns the jobs it extracted;
\* an exception raised while it fetches or extracts is caught by its own
\* handler, which returns []; an exception raised before its try block leaves
\* the coroutine
ScrapeKinds == {"ok", "raises_in_try", "raises_before_try"}

ScrapeJobs(kind, jobs) ==
    CASE kind = "ok" -> <<"list", jobs>>
      [] kind = "raises_in_try" -> <<"list", << >> >>
      [] OTHER -> <<"raise", <<"scrape error">> >>

\* _run_scraper_with_error_handling around one scrape
RunScraperWithErrorHandling(scraped) ==
    IF scraped[1] = "raise"
    THEN [ jobs |-> << >>, success |-> FALSE, error |-> S(scraped[2]) ]
    ELSE [ jobs |-> scraped[2], success |-> TRUE, error |-> None ]

\* scraping_stats after the first k gathered results were collected
ScrapingStats(res, k) ==
    [ name \in { Sources[i] : i \in 1..k } |->
        LET i == CHOOSE j \in 1..k : Sources[j] = name
        IN  [ jobs_found |-> Len(res[i].jobs), success |-> res[i].success,
              error |-> res[i].error ] ]

\* all_scraped_jobs after the first k gathered results were collected
RECURSIVE AllScrapedJobs(_, _)
AllScrapedJobs(res, k) ==
    IF k = 0 THEN << >> ELSE AllScrapedJobs(res, k - 1) \o res[k].jobs

\* the handler of `except Exception` in run_all_scrapers: the message is added
\* and the results are returned. The variant lets the exception leave.
CriticalError_propagates(res) == [ raised |-> TRUE, results |-> res ]
CriticalError(res) ==
    [ raised |-> FALSE,
      results |-> [ res EXCEPT !.errors = Append(@, <<"Critical error in scraper orchestrator">>) ] ]

\* the call starts: results is built and the AsyncWebScraper is entered
RunAllScrapers ==
    /\ opc = "idle"
    /\ opc' = "scraping"
    /\ scraping_results' = [ i \in 1..Len(Sources) |->
                               [ state |-> "pending", kind |-> "pending", returned |-> << >>,
                                 jobs |-> << >>, success |-> TRUE, error |-> None ] ]
    /\ orch_results' = [ raised |-> FALSE, results |-> NewResults ]
    /\ UNCHANGED procVars

\* entering the AsyncWebScraper raises
EnterRaises ==
    /\ opc = "idle"
    /\ opc' = "done"
    /\ orch_results' = CriticalError(NewResults)
    /\ UNCHANGED <<scraping_results, procVars>>

\* the scraping task of source i ends
RunScraper(i, kind, jobs) ==
    /\ opc = "scraping"
    /\ scraping_results[i].state = "pending"
    /\ LET r == RunScraperWithErrorHandling(ScrapeJobs(kind, jobs))
       IN  scraping_results' = [ scraping_results EXCEPT ![i] =
                                   [ state |-> "returned", kind |-> kind, returned |-> jobs,
                                     jobs |-> r.jobs, success |-> r.success, error |-> r.error ] ]
    /\ UNCHANGED <<opc, orch_results, procVars>>

\* gather has returned: the results are collected, and the processor is called
\* when a job was scraped
Collect ==
    /\ opc = "scraping"
    /\ \A i \in 1..Len(Sources) : scraping_results[i].state = "returned"
    /\ LET all_scraped_jobs == AllScrapedJobs(scraping_results, Len(Sources))
           res == [ orch_results.results EXCEPT
                      !.scraping_stats = ScrapingStats(scraping_results, Len(Sources)),
                      !.total_jobs_scraped = Len(all_scraped_jobs) ]
       IN  IF all_scraped_jobs # << >>
           THEN /\ opc' = "processing"
                /\ source_pages' = all_scraped_jobs
                /\ orch_results' = [ orch_results EXCEPT !.results = res ]
           ELSE /\ opc' = "done"
                /\ source_pages' = source_pages
                /\ orch_results' =
                     [ orch_results EXCEPT !.results =
                         [ res EXCEPT !.processing_stats =
                             Dict([ total_scraped |-> 0, new_jobs |-> 0, updated_jobs |-> 0,
                                    db_write_success |-> 0,
                                    errors |-> << <<"No jobs scraped from any source">> >> ]) ] ]
    /\ UNCHANGED <<scraping_results, store, seen_urls, ppc, clock, stats, valid_jobs, chunk_res,
                   existing_job_ids, write_records, batch_res, hist>>

\* an exception of the orchestrator's own logic while it collects result k
CollectRaises(k) ==
    /\ opc = "scraping"
    /\ \A i \in 1..Len(Sources) : scraping_results[i].state = "returned"
    /\ k \in 1..Len(Sources)
    /\ opc' = "done"
    /\ orch_results' =
         CriticalError([ orch_results.results EXCEPT
                           !.scraping_stats = ScrapingStats(scraping_results, k - 1) ])
    /\ UNCHANGED <<scraping_results, procVars>>

\* process_scraped_jobs has returned its stats to run_all_scrapers
ProcessingReturned ==
    /\ opc = "processing"
    /\ ppc = "idle"
    /\ hist # << >>
    /\ hist[Len(hist)].done
    /\ opc' = "done"
    /\ LET processing_stats == hist[Len(hist)].stats
       IN  orch_results' =
             [ orch_results EXCEPT !.results =
                 [ @ EXCEPT !.processing_stats = Dict(processing_stats),
                            !.total_jobs_processed = processing_stats.db_write_success,
                            !.errors = @ \o processing_stats.errors ] ]
    /\ UNCHANGED <<scraping_results, procVars>>

\* what one source may return: up to MaxSiteJobs candidates, among a posting,
\* the same posting under another url and a candidate without url
SitePool == { j \in JobPool : j.link \in {S(Str_link1), S(Str_link1b), Absent} }

SiteJobs == UNION { [1..n -> SitePool] : n \in 0..MaxSiteJobs }

InitOrch ==
    /\ FetchIdle
    /\ OrchIdle
    /\ ApiIdle
    /\ CallIdle
    /\ source_pages = << >>
    /\ ProcIdle

NextOrch ==
    \/ RunAllScrapers /\ UNCHANGED <<fetchVars, callVars, apiVars>>
    \/ EnterRaises /\ UNCHANGED <<fetchVars, callVars, apiVars>>
    \/ \E i \in 1..Len(Sources) : \E kind \in ScrapeKinds : \E jobs \in SiteJobs :
          /\ kind # "ok" => jobs = << >>
          /\ RunScraper(i, kind, jobs)
          /\ UNCHANGED <<fetchVars, callVars, apiVars>>
    \/ Collect /\ UNCHANGED <<fetchVars, callVars, apiVars>>
    \/ \E k \in 1..Len(Sources) : CollectRaises(k) /\ UNCHANGED <<fetchVars, callVars, apiVars>>
    \/ opc = "processing" /\ hist = << >> /\ StartRun /\ UNCHANGED <<fetchVars, orchVars, callVars, apiVars>>
    \/ \E k \in 1..(MaxSiteJobs * Len(Sources)) :
          opc = "processing" /\ hist = << >> /\ Step1Raises(k) /\ UNCHANGED <<fetchVars, orchVars, callVars, apiVars>>
    \/ \E c \in 1..MaxChunks : \E raised \in BOOLEAN : CheckExistingBatch(c, raised) /\ UNCHANGED <<fetchVars, orchVars, callVars, apiVars>>
    \/ CheckExistingReturn /\ UNCHANGED <<fetchVars, orchVars, callVars, apiVars>>
    \/ \E b \in 1..MaxBatches : \E raised \in WriteFailures \cup {"none"} : \E k \in 0..batch_size :
          WriteBatch(b, raised, k) /\ UNCHANGED <<fetchVars, orchVars, callVars, apiVars>>
    \/ BatchWriteReturn /\ UNCHANGED <<fetchVars, orchVars, callVars, apiVars>>
    \/ ProcessingReturned /\ UNCHANGED <<fetchVars, callVars, apiVars>>

SpecOrch == InitOrch /\ [][NextOrch]_vars

----------------------------------------------------------------------------
\* The normalization of one raw candidate: validate_job_data, generate_job_id
\* and create_job_record, as process_scraped_jobs applies them

Str_scenario_link == <<104, 116, 116, 112, 115, 58, 47, 47, 120, 46, 116, 101, 115, 116, 47, 106, 111, 98, 47, 49, 63, 114, 101, 102, 61, 97, 98, 99>>
Str_scenario_base == <<104, 116, 116, 112, 115, 58, 47, 47, 120, 46, 116, 101, 115, 116, 47, 106, 111, 98, 47, 49>>
Str_scenario_description == <<53, 32, 97, 110, 115, 32, 100, 39, 101, 120, 112, 233, 114, 105, 101, 110, 99, 101, 32, 114, 101, 113, 117, 105, 115, 101>>

\* the candidate {job_title: "Regulatory Affairs Manager", company_name:
\* "Acme", city: "paris", link: "https://x.test/job/1?ref=abc", source: "leem",
\* description: "5 ans d'expérience requise"}
ScenarioCandidate ==
    [ job_title |-> S(<<82, 101, 103, 117, 108, 97, 116, 111, 114, 121, 32, 65, 102, 102, 97, 105, 114, 115, 32, 77, 97, 110, 97, 103, 101, 114>>),
      company_name |-> S(<<65, 99, 109, 101>>),
      link |-> S(Str_scenario_link),
      source |-> S(<<108, 101, 101, 109>>),
      city |-> S(Str_paris),
      year_of_experience |-> Absent,
      published_date |-> Absent,
      description |-> S(Str_scenario_description),
      salary_range |-> Absent ]

\* the candidate and its neighbours: other spellings of the city, other forms
\* of the link, with and without description and experience field
RawCandidates ==
    { [ ScenarioCandidate EXCEPT !.city = city, !.link = link, !.description = description,
                                 !.year_of_experience = exp ] :
        city \in { S(Str_paris), S(Str_Paris), S(<<32>> \o Str_paris), S(Str_versailles),
                   S(Str_Lyon), Absent },
        link \in { S(Str_scenario_link), S(Str_scenario_base),
                   S(Str_scenario_base \o <<35, 116>>) },
        description \in { S(Str_scenario_description), S(<< >>), Absent },
        exp \in { Absent, I(5), S(<<53>>) } }

\* what becomes of one candidate in process_scraped_jobs: the record written
\* for it, or None
NormalizeCandidate ==
    /\ call_rets = << >>
    /\ LET validated == validate_job_data(call_args, clock + 1)
       IN  /\ call_rets' = << IF validated = None THEN None
                              ELSE create_job_record(validated[2],
                                                     generate_job_id(call_args.link[2])) >>
           /\ clock' = clock + 1
    /\ UNCHANGED <<call_args, source_pages, store, seen_urls, ppc, stats, valid_jobs, chunk_res,
                   existing_job_ids, write_records, batch_res, hist>>

InitNormalize ==
    /\ FetchIdle
    /\ OrchIdle
    /\ ApiIdle
    /\ source_pages = << >>
    /\ ProcIdle
    /\ call_args \in RawCandidates
    /\ call_rets = << >>

NextNormalize == NormalizeCandidate /\ UNCHANGED <<fetchVars, orchVars, apiVars>>

SpecNormalize == InitNormalize /\ [][NextNormalize]_vars

----------------------------------------------------------------------------
\* GlassdoorScraper._parse_relative_date, on one date text

MaxCount == 12

\* `sub in s`
Contains(s, sub) ==
    \E i \in 1..(Len(s) - Len(sub) + 1) : SubSeq(s, i, i + Len(sub) - 1) = sub

\* the end of the run of digits that starts at i
DigitRunEnd(s, i) ==
    CHOOSE j \in i..Len(s) :
        /\ \A k \in i..j : IsDigit(s[k])
        /\ j = Len(s) \/ ~IsDigit(s[j + 1])

\* re.search(r'(\d+)\s*<c>...', s): int(match.group(1)) of the leftmost
\* match, None without a match. The optional tail of the pattern ((?:ay)?,
\* (?:our)?, ...) takes no part in whether the pattern matches.
SearchCount(s, c) ==
    LET starts == { i \in 1..Len(s) :
                      /\ IsDigit(s[i])
                      /\ \E k \in (DigitRunEnd(s, i) + 1)..Len(s) :
                            /\ s[k] = c
                            /\ \A x \in (DigitRunEnd(s, i) + 1)..(k - 1) : IsSpace(s[x]) }
        first  == CHOOSE i \in starts : \A j \in starts : i <= j
    IN  IF starts = {} THEN None
        ELSE I(DigitsValue(SubSeq(s, first, DigitRunEnd(s, first))))

\* the instant `hours` before datetime.now()
HoursAgo(hours) == <<"ago", hours>>

Str_day == <<100, 97, 121>>
Str_hour == <<104, 111, 117, 114>>
Str_week == <<119, 101, 101, 107>>
Str_month == <<109, 111, 110, 116, 104>>

\* one branch of the if/elif chain: the match decides between the shifted
\* date and the default at the end of the function
DateBranch(text, c, hours) ==
    IF SearchCount(text, c) = None THEN HoursAgo(0)
    ELSE HoursAgo(SearchCount(text, c)[2] * hours)

parse_relative_date(date_text) ==
    IF ~Truthy(date_text) THEN HoursAgo(0)
    ELSE LET date_text_lower == Lower(date_text[2])
         IN  IF Contains(date_text_lower, <<100>>) \/ Contains(date_text_lower, Str_day)
             THEN DateBranch(date_text_lower, 100, 24)
             ELSE IF Contains(date_text_lower, <<104>>) \/ Contains(date_text_lower, Str_hour)
             THEN DateBranch(date_text_lower, 104, 1)
             ELSE IF Contains(date_text_lower, <<119>>) \/ Contains(date_text_lower, Str_week)
             THEN DateBranch(date_text_lower, 119, 7 * 24)
             ELSE IF Contains(date_text_lower, <<109>>) \/ Contains(date_text_lower, Str_month)
             THEN DateBranch(date_text_lower, 109, 30 * 24)
             ELSE HoursAgo(0)

\* the units of the date texts, with their length in hours
DateUnits == { [ word |-> Str_day, hours |-> 24 ], [ word |-> Str_hour, hours |-> 1 ],
               [ word |-> Str_week, hours |-> 7 * 24 ], [ word |-> Str_month, hours |-> 30 * 24 ] }

\* "3d", "3 days ago", "Posted 3d", "Posted 3 days ago", "3 Days Ago"
DateForms == { "abbreviated", "words", "posted abbreviated", "posted words", "capitalized" }

DateText(count, unit, form) ==
    LET short == Digits(count) \o SubSeq(unit.word, 1, 1)
        long  == Digits(count) \o <<32>> \o unit.word \o <<115, 32, 97, 103, 111>>
    IN  CASE form = "abbreviated" -> short
          [] form = "words" -> long
          [] form = "posted abbreviated" -> <<80, 111, 115, 116, 101, 100, 32>> \o short
          [] form = "posted words" -> <<80, 111, 115, 116, 101, 100, 32>> \o long
          [] form = "capitalized" -> Digits(count) \o <<32>> \o Capitalized(unit.word)
                                        \o <<115, 32, 65, 103, 111>>

\* texts without a count and a unit: "", "today", "just now", "new", "24"
PlainTexts == { << >>, <<116, 111, 100, 97, 121>>, <<106, 117, 115, 116, 32, 110, 111, 119>>, <<110, 101, 119>>, <<50, 52>> }

\* the calls: the text, and for a text built from a count and a unit, these
DateInputs ==
    { [ date_text |-> S(DateText(count, unit, form)), hours |-> count * unit.hours ] :
        count \in 0..MaxCount, unit \in DateUnits, form \in DateForms }
    \cup { [ date_text |-> S(t), hours |-> 0 ] : t \in PlainTexts }
    \cup { [ date_text |-> None, hours |-> 0 ] }

ParseRelativeDate ==
    /\ call_rets = << >>
    /\ call_rets' = << parse_relative_date(call_args.date_text) >>
    /\ UNCHANGED <<call_args, procVars>>

InitDate ==
    /\ FetchIdle
    /\ OrchIdle
    /\ ApiIdle
    /\ source_pages = << >>
    /\ ProcIdle
    /\ call_args \in DateInputs
    /\ call_rets = << >>

NextDate == ParseRelativeDate /\ UNCHANGED <<fetchVars, orchVars, apiVars>>

SpecDate == InitDate /\ [][NextDate]_vars

----------------------------------------------------------------------------
\* Claims about the Fetcher (checked under SpecFetch)

\* C1: any two GET requests issued to the same domain are at least min_delay
\* apart, whatever the interleaving of the fetch_page calls.
C1_MinDelayBetweenGets ==
    \A d \in Domains : get_gap[d] = NoEntry \/ get_gap[d] >= min_delay

\* C2: at most max_concurrent_per_source fetch_page calls hold a slot of one
\* domain, the free slots of a domain are the limit minus its holders, and a call
\* waits for a slot only while every slot of its own domain is held (or it is
\* about to be resumed): the slots of another domain never block it.
C2_PerDomainSlots ==
    /\ \A d \in Domains :
          /\ Cardinality(Holders(d)) <= max_concurrent_per_source
          /\ semaphores[d] # NoSem =>
                semaphores[d] = max_concurrent_per_source - Cardinality(Holders(d))
    /\ \A t \in Tasks :
          fpc[t] = "acquire" =>
             \/ Cardinality(Holders(Netloc(urls[t]))) = max_concurrent_per_source
             \/ Runnable(t)

\* C2 witness: a call waits for a slot of an exhausted domain while a call that
\* was started after it runs on another domain.
C2_Witness ==
    \E t \in Tasks, u \in Tasks :
        /\ t < u
        /\ fpc[t] = "acquire"
        /\ Cardinality(Holders(Netloc(urls[t]))) = max_concurrent_per_source
        /\ Netloc(urls[u]) # Netloc(urls[t])
        /\ u \in Holders(Netloc(urls[u]))

\* C3: fetch_multiple_pages returns one entry per url, entry i being the body of
\* url i when its exchange returned 200 and None otherwise, whatever the other
\* urls did and whatever the completion order; no exception is handed out.
C3_AlignedResults ==
    results # NotGathered =>
        /\ Len(results) = Len(urls)
        /\ \A i \in 1..Len(urls) :
              results[i] = IF ok200[i] THEN Body(urls[i]) ELSE None

\* C3 witness: a fan-out returned with a body and a None, its tasks having
\* finished out of list order.
C3_Witness ==
    /\ results # NotGathered
    /\ out_of_order
    /\ \E i \in 1..Len(urls), j \in 1..Len(urls) :
          results[i] = None /\ results[j] = Body(urls[j])

C30_FetchTerminates ==
    <>[](/\ results # NotGathered
         /\ \A t \in Tasks : fpc[t] = "done"
         /\ \A d \in Domains :
               /\ Holders(d) = {}
               /\ semaphores[d] \in {NoSem, max_concurrent_per_source})

\* C30 witness: fetch_multiple_pages has returned after a call that waited for
\* a slot, a 429 backoff and a failed exchange, and the semaphore is full
\* again.
C30_Witness ==
    /\ results # NotGathered
    /\ Len(urls) > max_concurrent_per_source
    /\ \A t \in Tasks : Netloc(urls[t]) = Netloc(urls[1])
    /\ \E t \in Tasks : backoffs[t] > 0
    /\ \E t \in Tasks : backoffs[t] = 0 /\ fresult[t] = None
    /\ semaphores[Netloc(urls[1])] = max_concurrent_per_source

\* C23: the ledger of a domain is updated atomically: while a task is between
\* its read of last_request_times[domain] and its write of the new value
\* (asleep in wait_if_needed), no other task enters wait_if_needed for the same
\* domain, and the entry of a domain never moves backwards in time (its age
\* grows only while time passes).
C23_LedgerAtomic ==
    [][ \A d \in Domains :
          /\ \A t \in Tasks :
                (/\ Netloc(urls[t]) = d
                 /\ fpc[t] \in {"created", "acquire"}
                 /\ fpc'[t] \in {"sleep", "get"})
                    => \A u \in Tasks \ {t} : ~(Netloc(urls[u]) = d /\ fpc[u] = "sleep")
          /\ (fpc' # fpc /\ last_request_times[d] # NoEntry)
                => last_request_times'[d] <= last_request_times[d]
      ]_vars

----------------------------------------------------------------------------
\* Claims about one run and about repeated runs (checked under Spec)

\* candidate j carries a url, and a candidate before it with the same canonical
\* url passed validation (the first such candidate was accepted)
LaterOccurrence(j) ==
    /\ Truthy(Get(source_pages[j].link))
    /\ \E i \in 1..(j - 1) :
          /\ Truthy(Get(source_pages[i].link))
          /\ Truthy(validate_job_data(source_pages[i], 0))
          /\ Canon(source_pages[i].link[2]) = Canon(source_pages[j].link[2])

\* C4: within one process_scraped_jobs call the records handed to the batch
\* writer have pairwise distinct canonical urls and pairwise distinct ids, and
\* duplicates_filtered counts each later occurrence of an accepted canonical
\* url exactly once.
C4_InRunDedup ==
    /\ ppc # "idle" =>
          stats.duplicates_filtered =
              Cardinality({ j \in 1..Len(source_pages) : LaterOccurrence(j) })
    /\ ppc = "writing" =>
          \A i \in 1..Len(write_records), j \in 1..Len(write_records) :
              i # j => /\ Canon(write_records[i].link) # Canon(write_records[j].link)
                       /\ write_records[i].job_id # write_records[j].job_id

\* C4 witness: a record is handed to the writer while a later candidate of the
\* same canonical url was filtered.
C4_Witness ==
    /\ ppc = "writing"
    /\ Len(write_records) >= 1
    /\ stats.duplicates_filtered >= 1

\* C5: of two consecutive runs over the same source pages whose store calls all
\* succeeded, the second leaves the same ids in the store as the first, adds no
\* item, and classifies every record as updated and none as new.
C5_Idempotent ==
    \A n \in 1..(Len(hist) - 1) :
        (hist[n].done /\ hist[n + 1].done /\ hist[n].store_ok /\ hist[n + 1].store_ok) =>
            /\ StoreIds(hist[n + 1].after) = StoreIds(hist[n].after)
            /\ Cardinality(hist[n + 1].after) = Cardinality(hist[n].after)
            /\ hist[n + 1].stats.new_jobs = 0
            /\ hist[n + 1].stats.updated_jobs = Len(hist[n + 1].records)

\* C5 witness: a second run without store failure has returned, having
\* processed at least one record.
C5_Witness ==
    /\ Len(hist) >= 2
    /\ hist[1].done /\ hist[2].done
    /\ hist[1].store_ok /\ hist[2].store_ok
    /\ hist[2].stats.updated_jobs >= 1

\* C6: when a run writes a record whose id was in the store before the run, the
\* item stored after the run differs from the item stored before it in
\* updated_at only; created_at is the one of the first insertion.
C6_OnlyUpdatedAtChanges ==
    \A n \in 1..Len(hist) :
        (hist[n].done /\ hist[n].store_ok) =>
            \A new \in hist[n].after : \A old \in hist[n].before :
                new.job_id = old.job_id =>
                    [new EXCEPT !.updated_at = old.updated_at] = old

\* the city string is a name of the gazetteer, up to letter case, surrounding
\* whitespace and the apostrophe written as a hyphen
InGazetteer(city) ==
    Replace(Lower(Strip(city)), <<39>>, <<45>>) \in
        { Replace(c, <<39>>, <<45>>) : c \in ILE_DE_FRANCE_CITIES }

\* C14: every record handed to the batch writer, and every stored item, has a
\* city of the gazetteer; a candidate with a city outside it is rejected or gets
\* the default city, and its own city is never persisted.
C14_CityInGazetteer ==
    /\ ppc = "writing" => \A i \in 1..Len(write_records) : InGazetteer(write_records[i].city)
    /\ \A item \in store : InGazetteer(item.city)

\* C14 witness: the record of a candidate that came with the city "Lyon" is
\* handed to the writer with the default city.
C14_Witness ==
    /\ ppc = "writing"
    /\ \E j \in 1..Len(source_pages) : \E i \in 1..Len(write_records) :
          /\ source_pages[j].city = S(Str_Lyon)
          /\ Truthy(Get(source_pages[j].link))
          /\ write_records[i].job_id = generate_job_id(source_pages[j].link[2])
          /\ write_records[i].job_title = Strip(source_pages[j].job_title[2])
          /\ write_records[i].city = Str_Paris

\* C17: writing is an upsert keyed by id: the store never holds two items of
\* one id, and once a batch write has succeeded the stored item of each of its
\* records is that record, field by field; the same holds after a run whose
\* store calls all succeeded.
C17_Upsert ==
    /\ \A x \in store : \A y \in store : x.job_id = y.job_id => x = y
    /\ ppc = "writing" =>
          \A b \in DOMAIN batch_res :
              (batch_res[b].state = "returned" /\ batch_res[b].raised = "none") =>
                  \A i \in 1..Len(write_records) :
                      (b - 1) * batch_size < i /\ i <= b * batch_size => write_records[i] \in store
    /\ \A n \in 1..Len(hist) :
          (hist[n].done /\ hist[n].store_ok) =>
              \A i \in 1..Len(hist[n].records) : hist[n].records[i] \in hist[n].after

\* C17 witness: a run without store failure has replaced a stored item by a
\* record of the same id that differs from it.
C17_Witness ==
    \E n \in 1..Len(hist) :
        /\ hist[n].done /\ hist[n].store_ok
        /\ \E old \in hist[n].before : \E new \in hist[n].after :
              old.job_id = new.job_id /\ old # new

\* C27: when process_scraped_jobs returns from its main path, every candidate
\* is counted in exactly one bucket (total_scraped = duplicates_filtered +
\* validation_failed + new_jobs + updated_jobs) and every record handed to the
\* writer is counted once (db_write_success + db_write_errors = new_jobs +
\* updated_jobs).
C27_EveryCandidateCounted ==
    \A r \in DOMAIN hist :
        (hist[r].done /\ ~hist[r].crashed) =>
            LET st == hist[r].stats
            IN  /\ st.total_scraped = st.duplicates_filtered + st.validation_failed
                                         + st.new_jobs + st.updated_jobs
                /\ st.db_write_success + st.db_write_errors = st.new_jobs + st.updated_jobs

\* C27 witness: a finished call that refused or filtered a candidate and whose
\* write of the other one failed
C27_Witness ==
    \E r \in DOMAIN hist :
        /\ hist[r].done /\ ~hist[r].crashed
        /\ hist[r].stats.duplicates_filtered + hist[r].stats.validation_failed > 0
        /\ hist[r].stats.new_jobs + hist[r].stats.updated_jobs > 0
        /\ hist[r].stats.db_write_errors > 0

\* the candidate passes validation: validate_job_data accepts it and
\* create_job_record builds its record
PassesValidation(job) ==
    /\ validate_job_data(job, 0) # None
    /\ create_job_record(validate_job_data(job, 0)[2], generate_job_id(job.link[2])) # None

----------------------------------------------------------------------------
\* Claims about repeated calls on one JobProcessor (checked under SpecProcessor)

----------------------------------------------------------------------------
\* Claims about the batch writer (checked under SpecWriter)

\* the number of records of write batch b
BatchLen(b) ==
    IF b * batch_size <= Len(write_records)
    THEN batch_size
    ELSE Len(write_records) - (b - 1) * batch_size

RECURSIVE SumBatchLen(_)
SumBatchLen(B) ==
    IF B = {} THEN 0
    ELSE LET b == CHOOSE x \in B : TRUE IN BatchLen(b) + SumBatchLen(B \ {b})

\* C7: when every batch of batch_write_jobs has returned, the result has
\* success_count the total size of the batches written, error_count the total
\* size of the batches whose write raised, and one message per such batch; the
\* batches are the consecutive 25-record slices of the records.
C7_BatchAccounting ==
    (ppc = "writing" /\ \A b \in DOMAIN batch_res : batch_res[b].state = "returned") =>
        LET write_result == BatchWriteJobsResult(batch_res, Len(batch_res))
            failed == { b \in DOMAIN batch_res : batch_res[b].raised # "none" }
        IN  /\ Len(batch_res) = (Len(write_records) + batch_size - 1) \div batch_size
            /\ write_result.success_count = SumBatchLen(DOMAIN batch_res \ failed)
            /\ write_result.error_count = SumBatchLen(failed)
            /\ Len(write_result.errors) = Cardinality(failed)

\* C7 witness: 30 records, the first batch written and the second raised: 25
\* successes, 5 errors, one message.
C7_Witness ==
    /\ ppc = "writing"
    /\ Len(write_records) = 30
    /\ Len(batch_res) = 2
    /\ batch_res[1].state = "returned" /\ batch_res[1].raised = "none"
    /\ batch_res[2].state = "returned" /\ batch_res[2].raised # "none"
    /\ BatchWriteJobsResult(batch_res, 2).success_count = 25
    /\ BatchWriteJobsResult(batch_res, 2).error_count = 5
    /\ Len(BatchWriteJobsResult(batch_res, 2).errors) = 1

----------------------------------------------------------------------------
\* Claims about the existence lookup (checked under SpecResolver)

\* the ids of lookup chunk c
ChunkIds(c) ==
    { valid_jobs[i][1] : i \in ((c - 1) * chunk_size + 1)..Min(c * chunk_size, Len(valid_jobs)) }

\* the ids of the chunks whose lookup succeeded that are in the table
FoundIds ==
    UNION { ChunkIds(c) : c \in { x \in DOMAIN chunk_res : ~chunk_res[x].raised } }
        \cap StoreIds(store)

\* C10: whatever chunks of the existence lookup fail, check_existing_jobs
\* returns the ids of the other chunks that are in the table; the records of a
\* failed chunk are classified as new, and every valid record is handed to the
\* writer.
C10_LookupFailureIsNotExisting ==
    ppc = "writing" =>
        /\ existing_job_ids = FoundIds
        /\ Len(write_records) = Len(valid_jobs)
        /\ { write_records[i].job_id : i \in 1..Len(write_records) } =
              { valid_jobs[i][1] : i \in 1..Len(valid_jobs) }
        /\ stats.new_jobs + stats.updated_jobs = Len(write_records)
        /\ \A i \in 1..Len(write_records) :
              (i <= stats.new_jobs) <=> (write_records[i].job_id \notin FoundIds)
        /\ \A c \in DOMAIN chunk_res : chunk_res[c].raised =>
              \A id \in ChunkIds(c) :
                  \E i \in 1..stats.new_jobs : write_records[i].job_id = id

\* C10 witness: one chunk failed though ids of it are in the table, another
\* chunk succeeded and found ids.
C10_Witness ==
    /\ ppc = "writing"
    /\ \E c \in DOMAIN chunk_res :
          chunk_res[c].raised /\ ChunkIds(c) \cap StoreIds(store) # {}
    /\ \E c \in DOMAIN chunk_res : ~chunk_res[c].raised /\ chunk_res[c].ids # {}

----------------------------------------------------------------------------
\* Claims about the orchestrator (checked under SpecOrch)

\* the three results have been collected into scraping_stats
Collected == DOMAIN orch_results.results.scraping_stats = { Sources[i] : i \in 1..Len(Sources) }

\* C8: once the results are collected, a source whose scrape failed with an
\* exception is reported with success false, jobs_found 0 and an error
\* message, and every other source with the number of jobs it returned.
C8_FailedSourceReported ==
    Collected =>
        \A i \in 1..Len(Sources) :
            LET st == orch_results.results.scraping_stats[Sources[i]]
            IN  /\ scraping_results[i].kind # "ok" =>
                      (~st.success /\ st.jobs_found = 0 /\ st.error # None)
                /\ scraping_results[i].kind = "ok" =>
                      st.jobs_found = Len(scraping_results[i].returned)

ResultKeys == {"scraping_stats", "processing_stats", "total_jobs_scraped",
               "total_jobs_processed", "errors"}

StatsKeys == {"total_scraped", "duplicates_filtered", "validation_failed", "new_jobs",
              "updated_jobs", "db_write_success", "db_write_errors", "errors"}

\* the call is at a point from which its code goes on: a task to wait for, or
\* results to take up
CanStep ==
    \/ opc = "idle"
    \/ opc = "scraping"
    \/ /\ opc = "processing"
       /\ \/ ppc = "idle" /\ (hist = << >> \/ hist[Len(hist)].done)
          \/ ppc = "checking" /\ hist # << >> /\ ~hist[Len(hist)].done
          \/ ppc = "writing" /\ batch_res # << >> /\ ~hist[Len(hist)].done

\* C9: no exception leaves run_all_scrapers or process_scraped_jobs: until it
\* has returned the call can take a step, what it returns is the results
\* dictionary with all its entries, and a processor call returns the stats
\* dictionary with all its entries, carrying a message when it was cut short.
C9_AlwaysReturnsStats ==
    /\ ~orch_results.raised
    /\ opc # "done" => CanStep
    /\ DOMAIN orch_results.results = ResultKeys
    /\ opc = "done" =>
          LET res == orch_results.results
          IN  /\ res.total_jobs_scraped \in Nat
              /\ res.total_jobs_processed \in 0..res.total_jobs_scraped
              /\ res.processing_stats[1] = "dict"
              /\ DOMAIN res.errors = 1..Len(res.errors)
              /\ \A name \in DOMAIN res.scraping_stats :
                    DOMAIN res.scraping_stats[name] = {"jobs_found", "success", "error"}
              /\ (hist # << >>) => res.processing_stats = Dict(hist[1].stats)
    /\ \A n \in 1..Len(hist) :
          hist[n].done =>
              /\ DOMAIN hist[n].stats = StatsKeys
              /\ hist[n].stats.total_scraped = Len(source_pages)
              /\ hist[n].crashed => hist[n].stats.errors # << >>

\* C9 witness: the call has returned although a source failed and the
\* processor met a failure of the store or of its own logic.
C9_Witness ==
    /\ opc = "done"
    /\ \E i \in DOMAIN scraping_results : scraping_results[i].kind = "raises_before_try"
    /\ hist # << >>
    /\ hist[1].crashed \/ ~hist[1].store_ok
    /\ orch_results.results.errors # << >>

\* C9 witness of the orchestrator's own failure: the call has returned with the
\* critical error recorded.
C9_WitnessCritical ==
    /\ opc = "done"
    /\ orch_results.results.processing_stats = Dict(<< >>)
    /\ orch_results.results.errors # << >>

----------------------------------------------------------------------------
\* Claims about generate_job_id (checked under SpecId)

\* C12: the id is a function of the canonical url: every call made on the base
\* url or on the base followed by a query string or a fragment returns the id
\* of the base, whatever the deduplicator holds, and two calls on the same url
\* return the same id.
C12_IdOfCanonicalUrl ==
    \A i \in 1..Len(call_rets), j \in 1..Len(call_rets) :
        call_rets[i].value = call_rets[j].value

\* C12 witness: ids were returned for two different urls of one base, one of
\* them after the deduplicator had taken a url in.
C12_Witness ==
    /\ seen_urls # {}
    /\ \E i \in 1..Len(call_rets), j \in 1..Len(call_rets) :
          /\ i < j
          /\ call_rets[i].url # call_rets[j].url
          /\ call_rets[i].fn = "add_job"
          /\ call_rets[j].fn = "generate_job_id"

\* C29: the id functions agree: whichever of validation.generate_job_id,
\* JobDeduplicator.generate_job_id and mapper.generate_job_id two calls use,
\* the same url gets the same id, query string or fragment included (checked
\* under SpecIdAll).
C29_IdFunctionsAgree ==
    \A i \in 1..Len(call_rets), j \in 1..Len(call_rets) :
        call_rets[i].url = call_rets[j].url => call_rets[i].value = call_rets[j].value

----------------------------------------------------------------------------
\* Claims about the extraction of one page (checked under SpecExtract)

\* C13: a candidate whose page gave no title, no company or no city is
\* dropped: the scraper returns None for it, or else the validator builds no
\* record from it.
C13_MissingFieldDropped ==
    (/\ ~HasFields(call_args.job_data, {"job_title", "company_name", "city"})
     /\ Len(call_rets) = 2)
        => call_rets[2] = None

----------------------------------------------------------------------------
\* Claims about scraping followed by processing (checked under SpecScrape)

\* the pages whose candidate the extractor discarded
Discarded(scraper, pages) ==
    { k \in DOMAIN pages : ExtractPage(scraper, pages[k]) = None }

\* C24: every candidate the extractor discarded (a mandatory field missing, or
\* the extraction raised) is counted in validation_failed of the run that
\* processes the scraper's jobs.
C24_DiscardedCounted ==
    \A r \in DOMAIN hist :
        hist[r].done =>
            hist[r].stats.validation_failed >=
                Cardinality(Discarded(call_args.scraper, call_args.pages))

----------------------------------------------------------------------------
\* Claims about the API client and the PUT handler (checked under SpecApi)

\* C15: every stored record has year_of_experience between 0 and 50, whichever
\* collector wrote it.
C15_ExperienceInBounds ==
    /\ \A item \in store : 0 <= item.year_of_experience /\ item.year_of_experience <= 50
    /\ \A item \in job_table :
          item.source = S(<<97, 100, 122, 117, 110, 97>>) =>
              0 <= item.year_of_experience[2] /\ item.year_of_experience[2] <= 50

\* the request body carries job_title, company_name, link, source,
\* year_of_experience and published_date, and no id
SixFieldsNoId(body) ==
    /\ body[1] = "dict"
    /\ body[2].id = Absent
    /\ \A f \in JobModelRequired \ {"id"} : body[2][f] # Absent

\* C20: a PUT request whose body carries the six fields and no id is accepted:
\* the handler stores exactly one new item under a newly generated id and
\* answers 200 with the submitted fields plus id, created_at and updated_at
\* (the put_item call itself succeeding).
C20_PutAccepted ==
    [][ (/\ clock' # clock
         /\ call_args'.handler = "put_job"
         /\ call_args'.method = "PUT"
         /\ ~call_args'.put_raises
         /\ SixFieldsNoId(call_args'.body))
        => /\ http_response'.statusCode = 200
           /\ Cardinality(job_table') = Cardinality(job_table) + 1
           /\ \E item \in job_table' :
                 /\ job_table' = job_table \cup {item}
                 /\ item.id = Uuid(uuid_count')
                 /\ http_response'.body[2].id = item.id
           /\ \A f \in PutBodyFields \ {"id"} :
                 http_response'.body[2][f] = call_args'.body[2][f]
           /\ http_response'.body[2].created_at = Time(clock')
           /\ http_response'.body[2].updated_at = Time(clock')
      ]_vars

C22_GetListsEveryItem ==
    [][ (/\ call_args'.handler = "get_all_jobs"
         /\ call_args'.method = "GET"
         /\ ~call_args'.put_raises)
        => /\ http_response'.statusCode = 200
           /\ http_response'.body[1] = "list"
           /\ \A item \in job_table' :
                 Cardinality({ i \in DOMAIN http_response'.body[2] :
                                 http_response'.body[2][i].id = item.id }) = 1
           /\ Len(http_response'.body[2]) = Cardinality(job_table')
      ]_vars

----------------------------------------------------------------------------
\* Claims about _parse_relative_date (checked under SpecDate)

\* C25: for a text made of a count N and one of the units day, hour, week,
\* month, abbreviated or in words, alone or after "Posted", the function
\* returns the extraction time minus N units (a month being 30 days); for a
\* text without such a pattern it returns the extraction time.
C25_RelativeDateParsed ==
    call_rets # << >> => call_rets[1] = HoursAgo(call_args.hours)

----------------------------------------------------------------------------
\* Claims about the normalization of one candidate (checked under SpecNormalize)

\* C26: the candidate of the scenario is normalized to a record with city
\* "Paris", 5 years of experience, its link unchanged (query string included)
\* and the id made of the first 16 hex digits of the SHA-256 of
\* "https://x.test/job/1".
C26_ScenarioNormalized ==
    (call_args = ScenarioCandidate /\ call_rets # << >>)
        => /\ call_rets[1] # None
           /\ call_rets[1][2].city = Str_Paris
           /\ call_rets[1][2].year_of_experience = 5
           /\ call_rets[1][2].link = Str_scenario_link
           /\ call_rets[1][2].job_id = Sha16(Str_scenario_base)

----------------------------------------------------------------------------
\* Claims about validate_job_data (checked under SpecExperience)

\* the integer a year_of_experience value stands for, when it lies in 0..50,
\* and 0 otherwise
ExpectedExperience(v) ==
    LET n == PyInt(Get(v))
    IN  IF n[1] = "int" THEN (IF 0 <= n[2] /\ n[2] <= 50 THEN n[2] ELSE 0) ELSE 0

----------------------------------------------------------------------------
\* Claims about validate_ile_de_france_city (checked under SpecCity)

\* C19: validate_ile_de_france_city returns true for every gazetteer name, in
\* any letter case and with whitespace around it, and false for every other
\* string, for the empty string and for None.
C19_GazetteerMembership ==
    call_rets # << >> =>
        call_rets[1] = (/\ call_args[1] = "str"
                        /\ Lower(Strip(call_args[2])) \in ILE_DE_FRANCE_CITIES)

====
